---- MODULE Spec2Model ----
(***************************************************************************)
(* Model of the rawdirt repository:                                        *)
(*   - RawWorkerPool (utils/rawWorker): bounded-concurrency job scheduler  *)
(*   - metadata index routes (api/metadata/index, api/metadata/batch-update)*)
(*     read-modify-write of the shared index document                      *)
(***************************************************************************)
EXTENDS Integers, Sequences, FiniteSets, TLC

\* ------------------------------------------------------------------------
\* Bounds of the model
\* ------------------------------------------------------------------------
\* constructor argument maxWorkers of the pool under analysis
MaxWorkers == 2
\* number of jobs (files) ever handed to the pool
MaxJobs == 3

Jobs == 1..MaxJobs
\* every run but one that starts on an empty idle pool holds a job of its own
RunIds == 1..(MaxJobs + 1)

VARIABLES
    \* ---- RawWorkerPool fields ----
    fileQueue,          \* Seq of job ids (FIFO queue of {file, resolve, reject})
    activeWorkers,      \* integer counter
    availableWorkers,   \* Seq of worker ids
    activeTasks,        \* set of file keys (jobs) with an ActiveTask entry
    fileToWorker,       \* set of <<job, workerId>> pairs (Map)
    isProcessing,       \* BOOLEAN
    allTasksPromise,    \* 0 = null, else id of the aggregate promise
    allTasksResolve,    \* 0 = null, else id of the promise it resolves
    allTasksReject,     \* 0 = null, else id of the promise it rejects
    results,            \* Seq of job ids (results array)
    errors,             \* set of job ids (errors Map keys)
    \* ---- closures / promises living outside the pool fields ----
    inFlight,           \* set of <<job, workerId>>: processInMainThread calls not yet settled
    jobKind,            \* Seq over created jobs: "batch" (addFiles) or "single" (processFile)
    promiseState,       \* Seq over created aggregate promises: "pending"/"resolved"/"rejected"
    \* ---- observers (callbacks registered by the caller) ----
    completeCount,      \* job -> number of onWorkerComplete events
    completeErrCount,   \* job -> number of onWorkerComplete events carrying an error
    handlerCalls,       \* job -> number of completionHandler invocations
    filePromise,        \* job -> settlement of the promise returned by processFile
    resolveCalls,       \* run id -> number of allTasksResolve invocations
    failedJobs,         \* set of jobs whose processInMainThread rejected
    dropped,            \* set of jobs removed from the queue by stopProcessing
    abandoned,          \* set of jobs that were in flight when stopProcessing ran
    stopped,            \* TRUE once stopProcessing has been called
    \* ---- one merge of an update into a stored entry (both update routes) ----
    mExisting,          \* indexData.files[fileKey] before the merge
    mUpdate,            \* the incoming metadata of the request
    mPath,              \* "none" before the merge, then "single" or "batch"
    mResult,            \* [threw, entry]: what the route stored for the file key
    \* ---- a sequence of updates to one file key through either route ----
    foldSingle,         \* the stored entry when every update went through POST /api/metadata/index
    foldBatch,          \* the stored entry when every update went through POST /api/metadata/batch-update
    foldSteps,          \* number of updates applied
    \* ---- the metadata index in S3 and the two routes that update it ----
    store,              \* the index object in S3: [exists, files]
    indexUpdateInProgress,
    updateQueue,        \* ids of the requests whose performUpdate is queued
    requests,           \* POST /api/metadata/index requests, in order of arrival
    batches,            \* POST /api/metadata/batch-update requests
    started,            \* ids in the order in which their performUpdate began
    applied,            \* ids in the order in which their PutObject succeeded
    lastGet,            \* the answer to the last GET /api/metadata/index
    \* ---- the client store (useStore) and its timers ----
    files,              \* the files of the current view, hydrated
    selectedFile,       \* the selected file, EmptyEntry for null
    continuationToken,  \* "undef" or the token of the last listing response
    totalRawFilesFound,
    hasMoreFilesToLoad,
    currentPage,
    grandTotalRawFiles,
    metadataCache,      \* file key -> edits made while the file was not in view
    localStorage,       \* file key -> the JSON text stored under rawdirt_thumb_<key>
    pendingChanges,     \* file key -> unsaved changes
    lastSyncTime,       \* 0, or 1 once a sync has succeeded
    isSyncing,
    syncError,          \* "null" or the message of the last failure
    nextSyncTime,       \* 0 unset, -1 in the past, k > 0 due in k ticks
    scheduleTimers,     \* pending setTimeout(scheduleSyncToS3, 100)
    syncTimers,         \* ticks until each pending setTimeout(syncChangesToS3) is due
    syncRequest,        \* the batch-update request in flight: [sent, files]
    syncResult,         \* how the last finished call of syncChangesToS3 ended
    editCount,          \* number of calls of updateFileMetadata
    editLog,            \* the edits since pendingChanges was last emptied
    awaitingRetry,      \* a sync failed with changes pending, no call of syncChangesToS3 since
    preloadedMetadataMap, \* the index snapshot the page loaded on mount
    \* ---- GET /api/s3/list and its scan cache ----
    bucket,             \* the objects of the bucket, in listing order
    cachedRawFiles,
    cachedTotalRawFiles,
    hasScannedBucket,
    listRequests,       \* the requests to the list route: in flight, scanning, answered
    tokenPages,         \* page -> files delivered for it by load-more navigation
    directPages,        \* page -> files delivered for it by page-number navigation
    \* ---- one file going through processInMainThread or processRawFile ----
    pipeline,           \* the runs: position, decoded image, buffers held, events
    batch,              \* a call of batchProcessRawFiles: files, position, results, callbacks
    \* ---- the clock of the server process ----
    now,                \* Date.now() in ticks; each specification fixes the tick
    \* ---- the rate limit of POST /api/metadata/index ----
    lastIndexUpdate,
    readyAt,            \* request id -> the time at which its rate-limit wait ends
    putTimes,           \* the times at which PutObject was sent
    waited,             \* the requests that had to wait
    \* ---- GET /api/s3/file ----
    urlCache,           \* key -> [signedAt, expiresAt]
    urlRequests,        \* requests waiting for getSignedUrl
    returned            \* the answers with a URL: [signedAt, at, cached]

poolVars == <<fileQueue, activeWorkers, availableWorkers, activeTasks, fileToWorker,
              isProcessing, allTasksPromise, allTasksResolve, allTasksReject, results,
              errors, inFlight, jobKind, promiseState, completeCount,
              completeErrCount, handlerCalls, filePromise, resolveCalls, failedJobs,
              dropped, abandoned, stopped>>

mergeVars == <<mExisting, mUpdate, mPath, mResult>>

foldVars == <<foldSingle, foldBatch, foldSteps>>

indexVars == <<store, indexUpdateInProgress, updateQueue, requests, batches,
               started, applied>>

readVars == <<lastGet>>

pagingVars == <<files, selectedFile, continuationToken, totalRawFilesFound,
                hasMoreFilesToLoad, currentPage, grandTotalRawFiles>>

syncVars == <<metadataCache, localStorage, pendingChanges, lastSyncTime, isSyncing,
              syncError, nextSyncTime, scheduleTimers, syncTimers, syncRequest,
              syncResult, editCount, editLog, awaitingRetry>>

pageVars == <<preloadedMetadataMap>>

clientVars == <<pagingVars, syncVars, pageVars>>

listVars == <<bucket, cachedRawFiles, cachedTotalRawFiles, hasScannedBucket, listRequests,
              tokenPages, directPages>>

jobVars == <<pipeline, batch>>

timeVars == <<now>>

paceVars == <<lastIndexUpdate, readyAt, putTimes, waited>>

urlVars == <<urlCache, urlRequests, returned>>

extraVars == <<jobVars, timeVars, paceVars, urlVars>>

vars == <<poolVars, mergeVars, foldVars, indexVars, readVars, clientVars, listVars,
          extraVars>>

\* ------------------------------------------------------------------------
\* Helpers
\* ------------------------------------------------------------------------
Min(a, b) == IF a < b THEN a ELSE b

Range(s) == {s[i] : i \in 1..Len(s)}

\* ------------------------------------------------------------------------
\* RawWorkerPool
\* ------------------------------------------------------------------------
\* The pool state as one record, so that the private methods, which call one
\* another synchronously, compose as functions on states.
PoolState ==
    [fileQueue |-> fileQueue, activeWorkers |-> activeWorkers,
     availableWorkers |-> availableWorkers, activeTasks |-> activeTasks,
     fileToWorker |-> fileToWorker, isProcessing |-> isProcessing,
     allTasksPromise |-> allTasksPromise, allTasksResolve |-> allTasksResolve,
     allTasksReject |-> allTasksReject, results |-> results, errors |-> errors,
     inFlight |-> inFlight, jobKind |-> jobKind, promiseState |-> promiseState,
     completeCount |-> completeCount,
     completeErrCount |-> completeErrCount, handlerCalls |-> handlerCalls,
     filePromise |-> filePromise, resolveCalls |-> resolveCalls,
     failedJobs |-> failedJobs,
     dropped |-> dropped, abandoned |-> abandoned, stopped |-> stopped]

Becomes(s) ==
    /\ fileQueue' = s.fileQueue
    /\ activeWorkers' = s.activeWorkers
    /\ availableWorkers' = s.availableWorkers
    /\ activeTasks' = s.activeTasks
    /\ fileToWorker' = s.fileToWorker
    /\ isProcessing' = s.isProcessing
    /\ allTasksPromise' = s.allTasksPromise
    /\ allTasksResolve' = s.allTasksResolve
    /\ allTasksReject' = s.allTasksReject
    /\ results' = s.results
    /\ errors' = s.errors
    /\ inFlight' = s.inFlight
    /\ jobKind' = s.jobKind
    /\ promiseState' = s.promiseState
    /\ completeCount' = s.completeCount
    /\ completeErrCount' = s.completeErrCount
    /\ handlerCalls' = s.handlerCalls
    /\ filePromise' = s.filePromise
    /\ resolveCalls' = s.resolveCalls
    /\ failedJobs' = s.failedJobs
    /\ dropped' = s.dropped
    /\ abandoned' = s.abandoned
    /\ stopped' = s.stopped

\* constructor: availableWorkers = [0, 1, ..., maxWorkers-1]
InitialWorkers == [i \in 1..MaxWorkers |-> i - 1]

\* settling an already settled promise has no effect
Settle(ps, r, how) == IF ps[r] = "pending" THEN [ps EXCEPT ![r] = how] ELSE ps

\* updateActiveTasks(fileKey, stage): stage = null removes, otherwise sets
updateActiveTasks(s, job, remove) ==
    [s EXCEPT !.activeTasks = IF remove THEN @ \ {job} ELSE @ \cup {job}]

finishAllTasks(s) ==
    LET s1 == [s EXCEPT !.isProcessing = FALSE]
    IN  IF s1.allTasksResolve # 0
        THEN [s1 EXCEPT !.promiseState = Settle(@, s1.allTasksResolve, "resolved"),
                        !.resolveCalls[s1.allTasksResolve] = @ + 1,
                        !.allTasksResolve = 0,
                        !.allTasksReject = 0,
                        !.allTasksPromise = 0]
        ELSE s1

\* the part of processNextFile that takes a job from the queue and starts it
StartHead(s) ==
    LET job == Head(s.fileQueue)
        workerId == Head(s.availableWorkers)
        s1 == [s EXCEPT !.fileQueue = Tail(@),
                        !.availableWorkers = Tail(@),
                        !.fileToWorker = {p \in @ : p[1] # job} \cup {<<job, workerId>>},
                        !.activeWorkers = @ + 1]
        s2 == updateActiveTasks(s1, job, FALSE)
    IN  [s2 EXCEPT !.inFlight = @ \cup {<<job, workerId>>}]

\* processNextFile with the capacity test left out: shift() on an empty
\* availableWorkers yields undefined (-1 here) and the job starts all the same
processNextFileNoCapacityTest(s) ==
    IF Len(s.fileQueue) = 0
    THEN IF s.isProcessing /\ s.activeWorkers = 0 THEN finishAllTasks(s) ELSE s
    ELSE LET job == Head(s.fileQueue)
             workerId == IF Len(s.availableWorkers) = 0 THEN -1 ELSE Head(s.availableWorkers)
         IN  [s EXCEPT !.fileQueue = Tail(@),
                       !.availableWorkers = IF Len(@) = 0 THEN @ ELSE Tail(@),
                       !.fileToWorker = {p \in @ : p[1] # job} \cup {<<job, workerId>>},
                       !.activeWorkers = @ + 1,
                       !.activeTasks = @ \cup {job},
                       !.inFlight = @ \cup {<<job, workerId>>}]

\* processNextFile finishing the run as soon as the queue is empty, without
\* looking at activeWorkers
processNextFileFinishOnEmptyQueue(s) ==
    IF Len(s.fileQueue) = 0
    THEN IF s.isProcessing THEN finishAllTasks(s) ELSE s
    ELSE IF s.activeWorkers >= MaxWorkers \/ Len(s.availableWorkers) = 0
         THEN s
         ELSE StartHead(s)

processNextFile(s) ==
    IF Len(s.fileQueue) = 0
    THEN IF s.isProcessing /\ s.activeWorkers = 0 THEN finishAllTasks(s) ELSE s
    ELSE IF s.activeWorkers >= MaxWorkers \/ Len(s.availableWorkers) = 0
         THEN s
         ELSE StartHead(s)

RECURSIVE Times(_, _)
Times(s, n) == IF n = 0 THEN s ELSE Times(processNextFile(s), n - 1)

\* resolve / reject closures of a queue entry: addFiles entries record into the
\* pool and call the completion handler, processFile entries settle the promise
\* handed to the caller
ResolveJob(s, job) ==
    IF s.jobKind[job] = "batch"
    THEN [s EXCEPT !.results = Append(@, job), !.handlerCalls[job] = @ + 1]
    ELSE [s EXCEPT !.filePromise[job] = IF @ = "pending" THEN "resolved" ELSE @]

RejectJob(s, job) ==
    IF s.jobKind[job] = "batch"
    THEN [s EXCEPT !.errors = @ \cup {job}, !.handlerCalls[job] = @ + 1]
    ELSE [s EXCEPT !.filePromise[job] = IF @ = "pending" THEN "rejected" ELSE @]

\* the tail shared by the then and catch handlers of processNextFile
AfterSettle(s) ==
    LET s1 == [s EXCEPT !.activeWorkers = @ - 1]
        s2 == processNextFile(s1)
    IN  IF s2.isProcessing /\ s2.activeWorkers = 0 /\ Len(s2.fileQueue) = 0
        THEN finishAllTasks(s2)
        ELSE s2

ThenHandler(s, job, workerId) ==
    LET s1 == updateActiveTasks(s, job, TRUE)
        s2 == [s1 EXCEPT !.availableWorkers = Append(@, workerId),
                         !.fileToWorker = {p \in @ : p[1] # job},
                         !.completeCount[job] = @ + 1]
        s3 == ResolveJob(s2, job)
    IN  AfterSettle(s3)

\* a catch handler that reports the failure but does not go on to the next file
CatchHandlerNoNextFile(s, job, workerId) ==
    LET s1 == updateActiveTasks(s, job, TRUE)
        s2 == [s1 EXCEPT !.availableWorkers = Append(@, workerId),
                         !.fileToWorker = {p \in @ : p[1] # job},
                         !.completeCount[job] = @ + 1,
                         !.completeErrCount[job] = @ + 1]
        s3 == RejectJob(s2, job)
        s4 == [s3 EXCEPT !.activeWorkers = @ - 1]
    IN  IF s4.isProcessing /\ s4.activeWorkers = 0 /\ Len(s4.fileQueue) = 0
        THEN finishAllTasks(s4)
        ELSE s4

CatchHandler(s, job, workerId) ==
    LET s1 == updateActiveTasks(s, job, TRUE)
        s2 == [s1 EXCEPT !.availableWorkers = Append(@, workerId),
                         !.fileToWorker = {p \in @ : p[1] # job},
                         !.completeCount[job] = @ + 1,
                         !.completeErrCount[job] = @ + 1]
        s3 == RejectJob(s2, job)
    IN  AfterSettle(s3)

PoolInit ==
    /\ fileQueue = <<>>
    /\ activeWorkers = 0
    /\ availableWorkers = InitialWorkers
    /\ activeTasks = {}
    /\ fileToWorker = {}
    /\ isProcessing = FALSE
    /\ allTasksPromise = 0
    /\ allTasksResolve = 0
    /\ allTasksReject = 0
    /\ results = <<>>
    /\ errors = {}
    /\ inFlight = {}
    /\ jobKind = <<>>
    /\ promiseState = <<>>
    /\ completeCount = [j \in Jobs |-> 0]
    /\ completeErrCount = [j \in Jobs |-> 0]
    /\ handlerCalls = [j \in Jobs |-> 0]
    /\ filePromise = [j \in Jobs |-> "none"]
    /\ resolveCalls = [r \in RunIds |-> 0]
    /\ failedJobs = {}
    /\ dropped = {}
    /\ abandoned = {}
    /\ stopped = FALSE

\* addFiles(files): files.length = n
addFiles(n) ==
    /\ Len(jobKind) + n <= MaxJobs
    /\ LET first == Len(jobKind)
           new == [i \in 1..n |-> first + i]
       IN  Becomes([PoolState EXCEPT !.fileQueue = @ \o new,
                                     !.jobKind = @ \o [i \in 1..n |-> "batch"]])

\* processFile(file)
processFile ==
    /\ Len(jobKind) + 1 <= MaxJobs
    /\ LET job == Len(jobKind) + 1
           s1 == [PoolState EXCEPT !.fileQueue = Append(@, job),
                                   !.jobKind = Append(@, "single"),
                                   !.filePromise[job] = "pending"]
       IN  Becomes(processNextFile(s1))

\* processAllQueued()
processAllQueued ==
    IF allTasksPromise # 0
    THEN UNCHANGED vars
    ELSE /\ Len(promiseState) < MaxJobs + 1
         /\ LET r == Len(promiseState) + 1
                s1 == [PoolState EXCEPT !.promiseState = Append(@, "pending"),
                                        !.allTasksResolve = r,
                                        !.allTasksReject = r,
                                        !.isProcessing = TRUE,
                                        !.results = <<>>,
                                        !.errors = {}]
                workersToStart == Min(MaxWorkers, Len(s1.fileQueue))
                s2 == Times(s1, workersToStart)
                s3 == IF Len(s2.fileQueue) = 0 /\ s2.activeWorkers = 0
                      THEN finishAllTasks(s2)
                      ELSE s2
            \* the assignment to allTasksPromise happens after the executor ran
            IN  Becomes([s3 EXCEPT !.allTasksPromise = r])

\* processInMainThread(file, workerId) fulfils: the then handler runs
JobSucceeds(job, workerId) ==
    /\ <<job, workerId>> \in inFlight
    /\ Becomes(ThenHandler([PoolState EXCEPT !.inFlight = @ \ {<<job, workerId>>}],
                           job, workerId))

\* processInMainThread(file, workerId) rejects: the catch handler runs
JobFails(job, workerId) ==
    /\ <<job, workerId>> \in inFlight
    /\ Becomes(CatchHandler([PoolState EXCEPT !.inFlight = @ \ {<<job, workerId>>},
                                              !.failedJobs = @ \cup {job}],
                            job, workerId))

\* stopProcessing that resets the slots but leaves the queue as it is
stopProcessingKeepsQueue ==
    LET rej == allTasksReject
        s1 == [PoolState EXCEPT !.dropped = @ \cup Range(fileQueue),
                                !.abandoned = @ \cup {p[1] : p \in inFlight},
                                !.stopped = TRUE,
                                !.activeWorkers = 0,
                                !.availableWorkers = InitialWorkers,
                                !.fileToWorker = {},
                                !.activeTasks = {},
                                !.isProcessing = FALSE]
    IN  IF rej # 0
        THEN Becomes([s1 EXCEPT !.promiseState = Settle(@, rej, "rejected"),
                                !.allTasksPromise = 0,
                                !.allTasksResolve = 0,
                                !.allTasksReject = 0])
        ELSE Becomes(s1)

\* stopProcessing()
stopProcessing ==
    /\ LET rej == allTasksReject
           s1 == [PoolState EXCEPT !.dropped = @ \cup Range(fileQueue),
                                   !.abandoned = @ \cup {p[1] : p \in inFlight},
                                   !.stopped = TRUE,
                                   !.fileQueue = <<>>,
                                   !.activeWorkers = 0,
                                   !.availableWorkers = InitialWorkers,
                                   !.fileToWorker = {},
                                   !.activeTasks = {},
                                   !.isProcessing = FALSE]
       IN  IF rej # 0
           THEN Becomes([s1 EXCEPT !.promiseState = Settle(@, rej, "rejected"),
                                   !.allTasksPromise = 0,
                                   !.allTasksResolve = 0,
                                   !.allTasksReject = 0])
           ELSE Becomes(s1)

WorkerIds == 0..(MaxWorkers - 1)

\* ------------------------------------------------------------------------
\* Metadata index: merging an update into a file's entry
\* ------------------------------------------------------------------------
\* An entry and an update are functions from the fields they hold to values.
\* Values are tokens for the JavaScript values that the two routes tell apart:
\*   "undef"  undefined               "null"   null (falsy, typeof object)
\*   "empty"  the string ""           "nA"     a number, a valid epoch (instant A)
\*   "iA","iB" ISO-8601 strings of instants A and B, as toISOString prints them
\*   "rA"     a string that parses to instant A but is not in toISOString form
\*   "bad"    a string that does not parse as a date
\*   "obj"    a non-Date object       "objStr" String(obj), "[object Object]"
\*   "t1","t2" thumbnail data URLs    "w1","w2" widths (numbers)
\*   "dA","dB","dL" Date objects of instants A, B, L    "dInv" an Invalid Date
\*   "iL"     ISO string of instant L  "nAStr"  String(nA), which does not parse
\*   "z1","z2" sizes (numbers)
DateFields == {"exifDate", "s3LastModified"}
Fields == DateFields \cup {"thumbnailDataUrl", "width"}

DateInputs == {"undef", "null", "nA", "iB", "rA", "bad", "obj"}
UpdateValues(f) ==
    IF f \in DateFields THEN DateInputs
    ELSE IF f = "thumbnailDataUrl" THEN {"undef", "null", "empty", "t1", "t2"}
    ELSE {"undef", "w2"}
StoredValues(f) ==
    IF f \in DateFields THEN {"iA", "rA", "bad"}
    ELSE IF f = "thumbnailDataUrl" THEN {"empty", "t1"}
    ELSE {"w1"}

\* an object that has only the properties not marked "absent"
Present(r) == [f \in {g \in Fields : r[g] # "absent"} |-> r[f]]
\* a field may be missing from the object
OrAbsent(V) == V \cup {"absent"}
Updates ==
    {Present(r) : r \in [exifDate : OrAbsent(UpdateValues("exifDate")),
                          s3LastModified : OrAbsent(UpdateValues("s3LastModified")),
                          thumbnailDataUrl : OrAbsent(UpdateValues("thumbnailDataUrl")),
                          width : OrAbsent(UpdateValues("width"))]}
StoredEntries ==
    {Present(r) : r \in [exifDate : OrAbsent(StoredValues("exifDate")),
                          s3LastModified : OrAbsent(StoredValues("s3LastModified")),
                          thumbnailDataUrl : OrAbsent(StoredValues("thumbnailDataUrl")),
                          width : OrAbsent(StoredValues("width"))]}
EmptyEntry == [f \in {} |-> "undef"]

\* reading a property that the object does not have yields undefined
Get(o, f) == IF f \in DOMAIN o THEN o[f] ELSE "undef"

\* JavaScript truthiness and typeof
Truthy(v) == v \notin {"undef", "null", "empty"}
TypeOf(v) ==
    IF v = "undef" THEN "undefined"
    ELSE IF v \in {"null", "obj", "dA", "dB", "dL", "dInv"} THEN "object"
    ELSE IF v \in {"nA", "w1", "w2", "z1", "z2"} THEN "number"
    ELSE "string"

\* new Date(v): whether the date is valid; toISOString() throws RangeError if not
ValidDate(v) == v \in {"nA", "iA", "iB", "rA"}
\* new Date(v).toISOString() of a valid date
ToISO(v) == IF v = "iB" THEN "iB" ELSE "iA"
\* String(v)
StringOf(v) ==
    IF v = "obj" THEN "objStr"
    ELSE IF v = "nA" THEN "nAStr"
    ELSE IF v = "dInv" THEN "bad"
    ELSE v

\* {...a, ...b}
Spread(a, b) == [f \in DOMAIN a \cup DOMAIN b |-> IF f \in DOMAIN b THEN b[f] ELSE a[f]]

\* ---- POST /api/metadata/index, performUpdate ----
\* the date fields that performUpdate converts with new Date(..).toISOString()
Converted(metadata, f) ==
    /\ f \in DateFields
    /\ Truthy(Get(metadata, f))
    /\ TypeOf(Get(metadata, f)) # "string"

\* the conversion throws, the catch of performUpdate answers 500, nothing is put
SingleThrows(metadata) ==
    \E f \in DateFields : Converted(metadata, f) /\ ~ValidDate(metadata[f])

storableMetadata(metadata) ==
    [f \in DOMAIN metadata |->
        IF Converted(metadata, f) THEN ToISO(metadata[f]) ELSE metadata[f]]

\* updatedMetadata: the existing entry with the defined values copied over it
SingleMerged(existingMetadata, metadata) ==
    LET st == storableMetadata(metadata)
        defined == {f \in DOMAIN st : st[f] # "undef"}
    IN  Spread(existingMetadata, [f \in defined |-> st[f]])

SingleMerge(existingMetadata, metadata) ==
    IF SingleThrows(metadata)
    THEN [threw |-> TRUE, entry |-> existingMetadata]
    ELSE [threw |-> FALSE, entry |-> SingleMerged(existingMetadata, metadata)]

\* ---- POST /api/metadata/batch-update, the loop body for one file key ----
CleanValue(f, v) ==
    IF f \in DateFields /\ Truthy(v)
    THEN IF TypeOf(v) \in {"string", "number"}
         THEN IF ValidDate(v) THEN ToISO(v) ELSE StringOf(v)
         ELSE StringOf(v)
    ELSE v

cleanMetadata(existingMetadata, fileMetadata) ==
    LET defined == {f \in DOMAIN fileMetadata : fileMetadata[f] # "undef"}
        clean == [f \in defined |-> CleanValue(f, fileMetadata[f])]
    IN  IF /\ ~Truthy(Get(clean, "thumbnailDataUrl"))
           /\ Truthy(Get(existingMetadata, "thumbnailDataUrl"))
        THEN Spread(clean, [f \in {"thumbnailDataUrl"} |->
                                existingMetadata["thumbnailDataUrl"]])
        ELSE clean

\* a merge that stores the cleaned update in place of the entry
BatchMergedReplacesEntry(existingMetadata, fileMetadata) ==
    cleanMetadata(existingMetadata, fileMetadata)

BatchMerged(existingMetadata, fileMetadata) ==
    Spread(existingMetadata, cleanMetadata(existingMetadata, fileMetadata))

BatchMerge(existingMetadata, fileMetadata) ==
    [threw |-> FALSE, entry |-> BatchMerged(existingMetadata, fileMetadata)]

\* no update sequence in progress
FoldIdle ==
    /\ foldSingle = EmptyEntry
    /\ foldBatch = EmptyEntry
    /\ foldSteps = 0

\* ---- one merge, inputs drawn from the bounded sets ----
MergeIdle ==
    /\ mExisting = EmptyEntry
    /\ mUpdate = EmptyEntry
    /\ mPath = "none"
    /\ mResult = [threw |-> FALSE, entry |-> EmptyEntry]

MergeInit ==
    /\ mExisting \in StoredEntries
    /\ mUpdate \in Updates
    /\ mPath = "none"
    /\ mResult = [threw |-> FALSE, entry |-> mExisting]

MergeViaSingle ==
    /\ mPath = "none"
    /\ mPath' = "single"
    /\ mResult' = SingleMerge(mExisting, mUpdate)
    /\ UNCHANGED <<mExisting, mUpdate>>

MergeViaBatch ==
    /\ mPath = "none"
    /\ mPath' = "batch"
    /\ mResult' = BatchMerge(mExisting, mUpdate)
    /\ UNCHANGED <<mExisting, mUpdate>>

MergeNext ==
    /\ \/ MergeViaSingle
       \/ MergeViaBatch
    /\ UNCHANGED <<poolVars, foldVars, indexVars, readVars, clientVars, listVars, extraVars>>

\* ---- a sequence of updates to one file key, sent through either route ----
\* number of updates in a sequence
MaxUpdates == 2

FoldInit ==
    /\ foldSingle \in {EmptyEntry, ("thumbnailDataUrl" :> "t1") @@ ("width" :> "w1")}
    /\ foldBatch = foldSingle
    /\ foldSteps = 0

\* the same update reaches the entry once through each route
ApplyUpdate(u) ==
    /\ foldSteps < MaxUpdates
    /\ foldSingle' = SingleMerge(foldSingle, u).entry
    /\ foldBatch' = BatchMerge(foldBatch, u).entry
    /\ foldSteps' = foldSteps + 1

FoldNext ==
    /\ \E u \in Updates : ApplyUpdate(u)
    /\ UNCHANGED <<poolVars, mergeVars, indexVars, readVars, clientVars, listVars, extraVars>>

\* ------------------------------------------------------------------------
\* Metadata index: the update queue of POST /api/metadata/index and the
\* batch route POST /api/metadata/batch-update, both writing one S3 object
\* ------------------------------------------------------------------------
\* single-key requests and batch requests that arrive
MaxRequests == 3
MaxBatches == 1

Keys == {"a", "b"}
\* a request without a file key is answered 400
NoKey == ""

WidthOne == "width" :> "w1"
WidthTwo == "width" :> "w2"
\* metadata sent to the single-key route; the last makes the date conversion throw
RequestUpdates == {WidthOne, WidthTwo, "exifDate" :> "obj"}
\* the files object sent to the batch route; the empty object is answered at once
BatchFiles == {[k \in {} |-> EmptyEntry], "a" :> WidthTwo,
               ("a" :> ("thumbnailDataUrl" :> "t1")) @@ ("b" :> WidthOne)}

\* GetObject answers truthfully ("ok": the object, or NoSuchKey when there
\* is none) or fails for another reason ("error": network, throttling, parse)
GetOutcomes == {"ok", "error"}

EmptyDoc == [k \in {} |-> EmptyEntry]
\* indexData.files[fileKey] || {}
EntryOf(doc, k) == IF k \in DOMAIN doc THEN doc[k] ELSE EmptyEntry
\* indexData.files[fileKey] = entry
WithEntry(doc, k, entry) ==
    [x \in DOMAIN doc \cup {k} |-> IF x = k THEN entry ELSE doc[x]]

IndexState ==
    [store |-> store, indexUpdateInProgress |-> indexUpdateInProgress,
     updateQueue |-> updateQueue, requests |-> requests, batches |-> batches,
     started |-> started, applied |-> applied]

IndexBecomes(s) ==
    /\ store' = s.store
    /\ indexUpdateInProgress' = s.indexUpdateInProgress
    /\ updateQueue' = s.updateQueue
    /\ requests' = s.requests
    /\ batches' = s.batches
    /\ started' = s.started
    /\ applied' = s.applied

IndexInit ==
    /\ store = [exists |-> FALSE, files |-> EmptyDoc]
    /\ indexUpdateInProgress = FALSE
    /\ updateQueue = <<>>
    /\ requests = <<>>
    /\ batches = <<>>
    /\ started = <<>>
    /\ applied = <<>>

\* a queue that hands out its newest entry
DequeueLast(q) == [head |-> q[Len(q)], rest |-> SubSeq(q, 1, Len(q) - 1)]

\* updateQueue.shift()
Dequeue(q) == [head |-> Head(q), rest |-> Tail(q)]

\* processUpdateQueue up to its await: the update function runs until it has
\* sent GetObject (the rate-limit wait that precedes the read is part of the
\* "reading" phase)
processUpdateQueue(s) ==
    IF s.indexUpdateInProgress \/ s.updateQueue = <<>>
    THEN s
    ELSE LET d == Dequeue(s.updateQueue)
         IN  [s EXCEPT !.indexUpdateInProgress = TRUE,
                       !.updateQueue = d.rest,
                       !.requests[d.head].upc = "reading",
                       !.started = Append(@, d.head)]

\* a finally block that releases the lock and leaves the queue as it is
UpdateFinishedNoDrain(s) == [s EXCEPT !.indexUpdateInProgress = FALSE]

\* the finally block of processUpdateQueue
UpdateFinished(s) ==
    LET f == [s EXCEPT !.indexUpdateInProgress = FALSE]
    IN  IF f.updateQueue # <<>> THEN processUpdateQueue(f) ELSE f

\* getIndexFile of the index route: every failure yields the default structure
getIndexFile(outcome) ==
    IF outcome = "ok" /\ store.exists THEN store.files ELSE EmptyDoc

\* POST /api/metadata/index up to its await of randomBackoff
PostIndex(fileKey, metadata) ==
    /\ Len(requests) < MaxRequests
    /\ LET id == Len(requests) + 1
           s == IndexState
       IN  IF fileKey = NoKey
           THEN IndexBecomes([s EXCEPT !.requests = Append(@,
                    [fileKey |-> fileKey, metadata |-> metadata, handler |-> "done",
                     upc |-> "rejected", doc |-> EmptyDoc, status |-> 400])])
           ELSE IndexBecomes([s EXCEPT
                    !.requests = Append(@,
                        [fileKey |-> fileKey, metadata |-> metadata,
                         handler |-> "backoff", upc |-> "queued",
                         doc |-> EmptyDoc, status |-> 0]),
                    !.updateQueue = Append(@, id)])

\* the backoff timer of request id fires: the handler calls processUpdateQueue
BackoffEnds(id) ==
    /\ id \in DOMAIN requests
    /\ requests[id].handler = "backoff"
    /\ IndexBecomes(processUpdateQueue(
            [IndexState EXCEPT !.requests[id].handler = "done"]))

\* performUpdate from the answer of GetObject to the sending of PutObject
IndexRead(id, outcome) ==
    /\ id \in DOMAIN requests
    /\ requests[id].upc = "reading"
    /\ LET r == requests[id]
           indexData == getIndexFile(outcome)
           s == IndexState
       IN  IF SingleThrows(r.metadata)
           THEN IndexBecomes(UpdateFinished(
                    [s EXCEPT !.requests[id].upc = "done",
                              !.requests[id].status = 500]))
           ELSE IndexBecomes(
                    [s EXCEPT !.requests[id].upc = "putting",
                              !.requests[id].doc =
                                  WithEntry(indexData, r.fileKey,
                                      SingleMerged(EntryOf(indexData, r.fileKey),
                                                   r.metadata))])

\* performUpdate from the answer of PutObject on, then the finally block
IndexPut(id, success) ==
    /\ id \in DOMAIN requests
    /\ requests[id].upc = "putting"
    /\ LET r == requests[id]
           s == IndexState
       IN  IF success
           THEN IndexBecomes(UpdateFinished(
                    [s EXCEPT !.store = [exists |-> TRUE, files |-> r.doc],
                              !.applied = Append(@, id),
                              !.requests[id].upc = "done",
                              !.requests[id].doc = EmptyDoc,
                              !.requests[id].status = 200]))
           ELSE IndexBecomes(UpdateFinished(
                    [s EXCEPT !.requests[id].upc = "done",
                              !.requests[id].doc = EmptyDoc,
                              !.requests[id].status = 500]))

\* the loop of the batch route over the file keys of the request
RECURSIVE MergeFiles(_, _, _)
MergeFiles(indexData, filesToUpdate, fileKeys) ==
    IF fileKeys = {} THEN indexData
    ELSE LET k == CHOOSE x \in fileKeys : TRUE
         IN  MergeFiles(WithEntry(indexData, k,
                            BatchMerged(EntryOf(indexData, k), filesToUpdate[k])),
                        filesToUpdate, fileKeys \ {k})

\* POST /api/metadata/batch-update up to its await of GetObject
PostBatch(valid, filesToUpdate) ==
    /\ Len(batches) < MaxBatches
    /\ batches' = Append(batches,
            IF ~valid
            THEN [files |-> filesToUpdate, pc |-> "done", doc |-> EmptyDoc, status |-> 400]
            ELSE IF DOMAIN filesToUpdate = {}
            THEN [files |-> filesToUpdate, pc |-> "done", doc |-> EmptyDoc, status |-> 200]
            ELSE [files |-> filesToUpdate, pc |-> "reading", doc |-> EmptyDoc, status |-> 0])
    /\ UNCHANGED <<store, indexUpdateInProgress, updateQueue, requests,
                   started, applied>>

\* the batch route from the answer of GetObject to the sending of PutObject
BatchRead(b, outcome) ==
    /\ b \in DOMAIN batches
    /\ batches[b].pc = "reading"
    /\ batches' = [batches EXCEPT ![b] =
            IF outcome = "error"
            THEN [@ EXCEPT !.pc = "done", !.status = 500]
            ELSE [@ EXCEPT !.pc = "putting",
                           !.doc = MergeFiles(
                               IF store.exists THEN store.files ELSE EmptyDoc,
                               batches[b].files, DOMAIN batches[b].files)]]
    /\ UNCHANGED <<store, indexUpdateInProgress, updateQueue, requests,
                   started, applied>>

\* the batch route from the answer of PutObject on
BatchPut(b, success) ==
    /\ b \in DOMAIN batches
    /\ batches[b].pc = "putting"
    /\ batches' = [batches EXCEPT ![b] =
            [@ EXCEPT !.pc = "done", !.doc = EmptyDoc,
                      !.status = IF success THEN 200 ELSE 500]]
    /\ store' = IF success THEN [exists |-> TRUE, files |-> batches[b].doc] ELSE store
    /\ UNCHANGED <<indexUpdateInProgress, updateQueue, requests, started, applied>>

RequestIds == 1..MaxRequests
BatchIds == 1..MaxBatches

\* clients that use the single-key route only
QueueNext ==
    /\ \/ \E k \in Keys \cup {NoKey}, m \in RequestUpdates : PostIndex(k, m)
       \/ \E id \in RequestIds : BackoffEnds(id)
       \/ \E id \in RequestIds, o \in GetOutcomes : IndexRead(id, o)
       \/ \E id \in RequestIds, ok \in BOOLEAN : IndexPut(id, ok)
    /\ UNCHANGED <<poolVars, mergeVars, foldVars, readVars, clientVars, listVars, extraVars>>

\* clients that use both routes
IndexNext ==
    \/ QueueNext
    \/ /\ \/ \E v \in BOOLEAN, f \in BatchFiles : PostBatch(v, f)
          \/ \E b \in BatchIds, o \in GetOutcomes : BatchRead(b, o)
          \/ \E b \in BatchIds, ok \in BOOLEAN : BatchPut(b, ok)
       /\ UNCHANGED <<poolVars, mergeVars, foldVars, readVars, clientVars, listVars,
                      extraVars>>

\* ---- GET /api/metadata/index ----
ReadInit == lastGet = [status |-> 0, files |-> EmptyDoc]

\* an index route that answers 404 while there is no index object
GetResponseNotFound(outcome) ==
    IF outcome = "ok" /\ ~store.exists
    THEN [status |-> 404, files |-> EmptyDoc]
    ELSE [status |-> 200, files |-> getIndexFile(outcome)]

\* GET /api/metadata/index: getIndexFile does not throw, the answer is 200
GetResponse(outcome) == [status |-> 200, files |-> getIndexFile(outcome)]

GetIndex(outcome) ==
    /\ lastGet' = GetResponse(outcome)
    /\ UNCHANGED indexVars

\* readers of the index beside one writer on each route
ReadNext ==
    /\ \/ \E o \in GetOutcomes : GetIndex(o)
       \/ /\ \/ PostIndex("a", WidthOne)
             \/ \E id \in RequestIds : BackoffEnds(id)
             \/ \E id \in RequestIds, o \in GetOutcomes : IndexRead(id, o)
             \/ \E id \in RequestIds, ok \in BOOLEAN : IndexPut(id, ok)
             \/ PostBatch(TRUE, "b" :> WidthTwo)
             \/ \E b \in BatchIds, o \in GetOutcomes : BatchRead(b, o)
             \/ \E b \in BatchIds, ok \in BOOLEAN : BatchPut(b, ok)
          /\ UNCHANGED lastGet
    /\ UNCHANGED <<poolVars, mergeVars, foldVars, clientVars, listVars, extraVars>>

\* ------------------------------------------------------------------------
\* The client store (useStore): files, metadata caches, pending changes and
\* their synchronisation with POST /api/metadata/batch-update
\* ------------------------------------------------------------------------
\* calls of updateFileMetadata
MaxEdits == 2

\* ticks of 10 seconds: the delay of a scheduled sync and of the retry time
SyncDelay == 1
RetryDelay == 3

DateObjects == {"dA", "dB", "dL", "dInv"}

\* new Date(v)
NewDate(v) ==
    IF v \in {"iA", "rA", "nA"} THEN "dA"
    ELSE IF v = "iB" THEN "dB"
    ELSE IF v = "iL" THEN "dL"
    ELSE IF v \in DateObjects THEN v
    ELSE "dInv"

\* JSON.stringify of a value: Date.prototype.toJSON gives the ISO string, or
\* null for an Invalid Date
JsonValue(v) ==
    IF v = "dA" THEN "iA"
    ELSE IF v = "dB" THEN "iB"
    ELSE IF v = "dL" THEN "iL"
    ELSE IF v = "dInv" THEN "null"
    ELSE v

\* JSON.parse(JSON.stringify(object)): undefined properties are dropped
JsonEntry(e) == [f \in {g \in DOMAIN e : e[g] # "undef"} |-> JsonValue(e[f])]
JsonFiles(m) == [k \in DOMAIN m |-> JsonEntry(m[k])]

\* an entry of a listing response, as the client receives it
ListingEntry(k) == ("key" :> k) @@ ("size" :> "z1") @@ ("lastModified" :> "iL")

\* metadataUpdates passed to updateFileMetadata
EditUpdates ==
    {"thumbnailDataUrl" :> "t1",
     ("width" :> "w1") @@ ("thumbnailDataUrl" :> "undef"),
     "exifDate" :> "rA",
     ("exifDate" :> "nA") @@ ("width" :> "w2")}

\* updateFileMetadata: "Make sure it's a valid Date object"
EditDate(v) ==
    IF Truthy(v) /\ ~(v \in DateObjects /\ v # "dInv")
    THEN IF TypeOf(v) = "string" THEN NewDate(v) ELSE NewDate(StringOf(v))
    ELSE v

\* cleanUpdates: the defined values of the updates, exifDate made a Date
cleanUpdates(metadataUpdates) ==
    LET converted == [f \in DOMAIN metadataUpdates |->
                        IF f = "exifDate" THEN EditDate(metadataUpdates[f])
                        ELSE metadataUpdates[f]]
    IN  [f \in {g \in DOMAIN converted : converted[g] # "undef"} |-> converted[f]]

\* a pending entry that holds the last edit only
ReplacedChange(old, clean, fileKey) == Spread(clean, "key" :> fileKey)

\* newPendingChanges[fileKey] (and newMetadataCache[fileKey])
MergedChange(old, clean, fileKey) == Spread(Spread(old, clean), "key" :> fileKey)

\* state.files.findIndex(f => f.key === fileKey), 0 for -1
FileIndex(fs, fileKey) ==
    IF \E i \in DOMAIN fs : fs[i]["key"] = fileKey
    THEN CHOOSE i \in DOMAIN fs :
            /\ fs[i]["key"] = fileKey
            /\ \A j \in DOMAIN fs : fs[j]["key"] = fileKey => i <= j
    ELSE 0

\* ---- hydrateFile ----
\* fields that the localStorage branch copies when the file lacks them
LocalFields == {"thumbnailDataUrl", "width"}

HydratedWithLocal(file, localMetadata) ==
    LET filled == {f \in LocalFields :
                     ~Truthy(Get(file, f)) /\ Truthy(Get(localMetadata, f))}
        withFields == Spread(file, [f \in filled |-> localMetadata[f]])
    IN  IF ~Truthy(Get(file, "exifDate")) /\ Truthy(Get(localMetadata, "exifDate"))
        THEN Spread(withFields, "exifDate" :> NewDate(localMetadata["exifDate"]))
        ELSE withFields

HydratedFromIndex(file, indexedMeta) ==
    LET exif == IF Truthy(Get(indexedMeta, "exifDate"))
                   /\ NewDate(indexedMeta["exifDate"]) # "dInv"
                THEN "exifDate" :> NewDate(indexedMeta["exifDate"])
                ELSE EmptyEntry
        thumb == IF Truthy(Get(indexedMeta, "thumbnailDataUrl"))
                 THEN "thumbnailDataUrl" :> indexedMeta["thumbnailDataUrl"]
                 ELSE EmptyEntry
        modified == IF Truthy(Get(indexedMeta, "s3LastModified"))
                       /\ NewDate(indexedMeta["s3LastModified"]) # "dInv"
                    THEN "lastModified" :> NewDate(indexedMeta["s3LastModified"])
                    ELSE EmptyEntry
        size == IF Truthy(Get(indexedMeta, "size"))
                THEN "size" :> indexedMeta["size"] ELSE EmptyEntry
        width == IF Truthy(Get(indexedMeta, "width"))
                 THEN "width" :> indexedMeta["width"] ELSE EmptyEntry
    IN  Spread(Spread(Spread(Spread(Spread(file, exif), thumb), modified), size), width)

\* a hydration that lets the index snapshot fill what the caches left open
hydrateFileMixesIndex(file, cache, storage, metadataMap) ==
    LET k == file["key"]
        first == IF k \in DOMAIN cache THEN Spread(file, cache[k])
                 ELSE IF k \in DOMAIN storage THEN HydratedWithLocal(file, storage[k])
                 ELSE file
    IN  IF k \in DOMAIN metadataMap
        THEN Spread(HydratedFromIndex(file, metadataMap[k]), first)
        ELSE first

hydrateFile(file, cache, storage, metadataMap) ==
    LET k == file["key"]
    IN  IF k \in DOMAIN cache THEN Spread(file, cache[k])
        ELSE IF k \in DOMAIN storage THEN HydratedWithLocal(file, storage[k])
        ELSE IF k \in DOMAIN metadataMap THEN HydratedFromIndex(file, metadataMap[k])
        ELSE file

HydrateAll(listing, metadataMap) ==
    [i \in DOMAIN listing |->
        hydrateFile(listing[i], metadataCache, localStorage, metadataMap)]

\* ---- initial state of the store ----
PagingInit ==
    /\ files = <<>>
    /\ selectedFile = EmptyEntry
    /\ continuationToken = "undef"
    /\ totalRawFilesFound = 0
    /\ hasMoreFilesToLoad = TRUE
    /\ currentPage = 1
    /\ grandTotalRawFiles = 0

SyncInit ==
    /\ metadataCache = EmptyDoc
    /\ localStorage = EmptyDoc
    /\ pendingChanges = EmptyDoc
    /\ lastSyncTime = 0
    /\ isSyncing = FALSE
    /\ syncError = "null"
    /\ nextSyncTime = 0
    /\ scheduleTimers = 0
    /\ syncTimers = <<>>
    /\ syncRequest = [sent |-> FALSE, files |-> EmptyDoc]
    /\ syncResult = "none"
    /\ editCount = 0
    /\ editLog = <<>>
    /\ awaitingRetry = FALSE

\* useState({}) of the page
PageInit == preloadedMetadataMap = EmptyDoc

ClientInit == PagingInit /\ SyncInit /\ PageInit

\* the store after the first listing of a bucket with the one RAW file "a"
PagingLoaded ==
    /\ files = <<ListingEntry("a")>>
    /\ selectedFile = EmptyEntry
    /\ continuationToken = "undef"
    /\ totalRawFilesFound = 1
    /\ hasMoreFilesToLoad = FALSE
    /\ currentPage = 1
    /\ grandTotalRawFiles = 1

\* ---- the store actions that edit and synchronise metadata ----
updateFileMetadata(fileKey, metadataUpdates) ==
    /\ editCount < MaxEdits
    /\ LET clean == cleanUpdates(metadataUpdates)
           change == MergedChange(EntryOf(pendingChanges, fileKey), clean, fileKey)
           fileIndex == FileIndex(files, fileKey)
       IN  /\ pendingChanges' = WithEntry(pendingChanges, fileKey, change)
           /\ localStorage' = WithEntry(localStorage, fileKey, JsonEntry(change))
           /\ IF fileIndex # 0
              THEN /\ files' = [files EXCEPT ![fileIndex] = Spread(@, clean)]
                   /\ selectedFile' = IF Get(selectedFile, "key") = fileKey
                                      THEN Spread(selectedFile, clean)
                                      ELSE selectedFile
                   /\ UNCHANGED metadataCache
              ELSE /\ metadataCache' = WithEntry(metadataCache, fileKey,
                            MergedChange(EntryOf(metadataCache, fileKey), clean, fileKey))
                   /\ UNCHANGED <<files, selectedFile>>
    /\ scheduleTimers' = IF nextSyncTime = 0 THEN scheduleTimers + 1 ELSE scheduleTimers
    /\ editCount' = editCount + 1
    /\ editLog' = Append(editLog, <<fileKey, metadataUpdates>>)
    /\ UNCHANGED <<continuationToken, totalRawFilesFound, hasMoreFilesToLoad,
                   currentPage, grandTotalRawFiles, lastSyncTime, isSyncing,
                   syncError, nextSyncTime, syncTimers, syncRequest, syncResult,
                   awaitingRetry>>

\* a syncChangesToS3 that does not look at isSyncing
SyncCallWhileSyncing ==
    /\ awaitingRetry' = FALSE
    /\ IF DOMAIN pendingChanges = {}
       THEN /\ syncResult' = "returned"
            /\ UNCHANGED <<isSyncing, syncError, syncRequest>>
       ELSE /\ isSyncing' = TRUE
            /\ syncError' = "null"
            /\ syncRequest' = [sent |-> TRUE, files |-> JsonFiles(pendingChanges)]
            /\ UNCHANGED syncResult

\* syncChangesToS3 up to its await of fetch
SyncCall ==
    /\ awaitingRetry' = FALSE
    /\ IF isSyncing \/ DOMAIN pendingChanges = {}
       THEN /\ syncResult' = "returned"
            /\ UNCHANGED <<isSyncing, syncError, syncRequest>>
       ELSE /\ isSyncing' = TRUE
            /\ syncError' = "null"
            /\ syncRequest' = [sent |-> TRUE, files |-> JsonFiles(pendingChanges)]
            /\ UNCHANGED syncResult

\* the user presses the sync button of SyncStatusIndicator
ManualSync ==
    /\ SyncCall
    /\ UNCHANGED <<pagingVars, metadataCache, localStorage, pendingChanges,
                   lastSyncTime, nextSyncTime, scheduleTimers, syncTimers,
                   editCount, editLog>>

\* the timer set by scheduleSyncToS3 fires
SyncTimerFires(i) ==
    /\ i \in DOMAIN syncTimers
    /\ syncTimers[i] = 0
    /\ syncTimers' = SubSeq(syncTimers, 1, i - 1) \o SubSeq(syncTimers, i + 1, Len(syncTimers))
    /\ SyncCall
    /\ UNCHANGED <<pagingVars, metadataCache, localStorage, pendingChanges,
                   lastSyncTime, nextSyncTime, scheduleTimers, editCount, editLog>>

\* the timer set by updateFileMetadata fires: scheduleSyncToS3
ScheduleTimerFires ==
    /\ scheduleTimers > 0
    /\ scheduleTimers' = scheduleTimers - 1
    /\ IF isSyncing \/ nextSyncTime > 0
       THEN UNCHANGED <<nextSyncTime, syncTimers>>
       ELSE IF DOMAIN pendingChanges = {}
       THEN nextSyncTime' = 0 /\ UNCHANGED syncTimers
       ELSE /\ nextSyncTime' = SyncDelay
            /\ syncTimers' = Append(syncTimers, SyncDelay)
    /\ UNCHANGED <<pagingVars, metadataCache, localStorage, pendingChanges,
                   lastSyncTime, isSyncing, syncError, syncRequest, syncResult,
                   editCount, editLog, awaitingRetry>>

\* a sync whose success empties pendingChanges and whose failure does too
SyncFailedClearsPending(kind) ==
    /\ syncRequest.sent
    /\ isSyncing' = FALSE
    /\ syncError' = kind
    /\ nextSyncTime' = RetryDelay
    /\ pendingChanges' = EmptyDoc
    /\ syncRequest' = [sent |-> FALSE, files |-> EmptyDoc]
    /\ syncResult' = "threw"
    /\ awaitingRetry' = (DOMAIN pendingChanges # {})
    /\ editLog' = <<>>
    /\ UNCHANGED <<pagingVars, metadataCache, localStorage, lastSyncTime,
                   scheduleTimers, syncTimers, editCount>>

\* the batch-update request is answered with a non-OK status or is rejected:
\* the catch block of syncChangesToS3
SyncFailed(kind) ==
    /\ syncRequest.sent
    /\ isSyncing' = FALSE
    /\ syncError' = kind
    /\ nextSyncTime' = RetryDelay
    /\ syncRequest' = [sent |-> FALSE, files |-> EmptyDoc]
    /\ syncResult' = "threw"
    /\ awaitingRetry' = (DOMAIN pendingChanges # {})
    /\ UNCHANGED <<pagingVars, metadataCache, localStorage, pendingChanges,
                   lastSyncTime, scheduleTimers, syncTimers, editCount, editLog>>

\* the batch-update request is answered OK
SyncSucceeded ==
    /\ syncRequest.sent
    /\ isSyncing' = FALSE
    /\ lastSyncTime' = 1
    /\ pendingChanges' = EmptyDoc
    /\ nextSyncTime' = 0
    /\ syncRequest' = [sent |-> FALSE, files |-> EmptyDoc]
    /\ syncResult' = "resolved"
    /\ editLog' = <<>>
    /\ UNCHANGED <<pagingVars, metadataCache, localStorage, syncError,
                   scheduleTimers, syncTimers, editCount, awaitingRetry>>

clearPendingChanges ==
    /\ pendingChanges' = EmptyDoc
    /\ nextSyncTime' = 0
    /\ syncError' = "null"
    /\ editLog' = <<>>
    /\ awaitingRetry' = FALSE
    /\ UNCHANGED <<pagingVars, metadataCache, localStorage, lastSyncTime, isSyncing,
                   scheduleTimers, syncTimers, syncRequest, syncResult, editCount>>

\* ten seconds pass; a timer that is due fires before more time passes
Tick ==
    /\ scheduleTimers = 0
    /\ \A i \in DOMAIN syncTimers : syncTimers[i] > 0
    /\ nextSyncTime > 0 \/ syncTimers # <<>>
    /\ syncTimers' = [i \in DOMAIN syncTimers |-> syncTimers[i] - 1]
    /\ nextSyncTime' = IF nextSyncTime > 1 THEN nextSyncTime - 1
                       ELSE IF nextSyncTime = 1 THEN -1
                       ELSE nextSyncTime
    /\ UNCHANGED <<pagingVars, metadataCache, localStorage, pendingChanges,
                   lastSyncTime, isSyncing, syncError, scheduleTimers, syncRequest,
                   syncResult, editCount, editLog, awaitingRetry>>

FailureKinds == {"Failed to sync", "fetch rejected"}
TimerIds == 1..MaxEdits

SyncNext ==
    /\ \/ \E k \in Keys, u \in EditUpdates : updateFileMetadata(k, u)
       \/ ScheduleTimerFires
       \/ \E i \in TimerIds : SyncTimerFires(i)
       \/ ManualSync
       \/ SyncSucceeded
       \/ \E kind \in FailureKinds : SyncFailed(kind)
       \/ clearPendingChanges
       \/ Tick
    /\ UNCHANGED <<poolVars, mergeVars, foldVars, indexVars, readVars, pageVars, listVars,
                   extraVars>>

\* ---- GET /api/s3/list ----
MaxObjects == 5
MaxListRequests == 4
MaxScans == 2

\* DEFAULT_PAGE_SIZE and the pageSize of handleNavigateToPage (50 in the source),
\* MaxKeys of one listing call (1000) and MAX_FILES_TO_SCAN (5000), scaled down
PageSize == 2
ListMaxKeys == 2
MaxFilesToScan == 4

AllObjects == <<"a", "b", "notes.txt", "c", "d", "e", "f", "g">>
\* RAW_EXTENSIONS.some(ext => key.toLowerCase().endsWith(ext))
IsRaw(k) == k # "notes.txt"

Buckets == {SubSeq(AllObjects, 1, n) : n \in 0..MaxObjects}
Pages == 1..3

SelectRaw(contents) == SelectSeq(contents, IsRaw)

\* the server process before any request: nothing cached
ListInit ==
    /\ bucket = <<>>
    /\ cachedRawFiles = <<>>
    /\ cachedTotalRawFiles = 0
    /\ hasScannedBucket = FALSE
    /\ listRequests = <<>>
    /\ tokenPages = EmptyDoc
    /\ directPages = EmptyDoc

\* the same server process in front of a bucket with some objects
ListStart ==
    /\ bucket \in Buckets
    /\ cachedRawFiles = <<>>
    /\ cachedTotalRawFiles = 0
    /\ hasScannedBucket = FALSE
    /\ listRequests = <<>>
    /\ tokenPages = EmptyDoc
    /\ directPages = EmptyDoc

NoResponse ==
    [ok |-> FALSE, files |-> <<>>, nextContinuationToken |-> "undef",
     totalFilesFoundInScan |-> 0, hasMoreFilesAfterThisPage |-> FALSE,
     grandTotalRawFiles |-> 0]

\* a request of the page to the list route; logical is the page the client shows it as
ListRequest(kind, token, pageNumber, countTotal, logical) ==
    [kind |-> kind, continuationToken |-> token, pageNumber |-> pageNumber,
     countTotal |-> countTotal, logical |-> logical, pc |-> "sent",
     allFiles |-> <<>>, nextToken |-> 1, scanned |-> 0, response |-> NoResponse]

Finished == [pc |-> "done"]

\* the page cut out of the scan cache
respondWithPage(cachedFiles, cachedTotal, page, pageSize) ==
    LET startIndex == (page - 1) * pageSize
        filesForPage == SubSeq(cachedFiles, startIndex + 1,
                               Min(startIndex + pageSize, Len(cachedFiles)))
        more == page * pageSize < Len(cachedFiles)
    IN  [ok |-> TRUE, files |-> filesForPage,
         nextContinuationToken |-> IF more THEN "has-more" ELSE "undef",
         totalFilesFoundInScan |-> Len(cachedFiles),
         hasMoreFilesAfterThisPage |-> more,
         grandTotalRawFiles |-> cachedTotal]

\* the handler up to its first await: it answers from the cache or starts a scan.
\* The requests of the page never reach the fallback that pages with S3 tokens.
ListGet(r) ==
    /\ r \in DOMAIN listRequests
    /\ listRequests[r].pc = "sent"
    /\ LET req == listRequests[r]
           cacheReady == hasScannedBucket /\ Len(cachedRawFiles) > 0
           answer == [req EXCEPT !.pc = "answered",
                          !.response = respondWithPage(cachedRawFiles,
                                           cachedTotalRawFiles, req.pageNumber, PageSize)]
           scan == [req EXCEPT !.pc = "scanning"]
       IN  \/ /\ req.continuationToken = "has-more"
              /\ listRequests' = [listRequests EXCEPT ![r] =
                                     IF cacheReady THEN answer ELSE scan]
           \/ /\ req.continuationToken # "has-more"
              /\ req.pageNumber > 1 /\ cacheReady
              /\ listRequests' = [listRequests EXCEPT ![r] = answer]
           \/ /\ req.continuationToken # "has-more"
              /\ ~(req.pageNumber > 1 /\ cacheReady)
              /\ (req.pageNumber = 1 /\ req.countTotal) \/ ~cacheReady
              /\ listRequests' = [listRequests EXCEPT ![r] = scan]
    /\ UNCHANGED <<bucket, cachedRawFiles, cachedTotalRawFiles, hasScannedBucket,
                   tokenPages, directPages>>

\* A scan that stores every listing in the cache as soon as it arrives.
scanWritesThrough(r, listing) ==
    /\ r \in DOMAIN listRequests
    /\ listRequests[r].pc = "scanning"
    /\ LET req == listRequests[r]
           last == Min(req.nextToken + ListMaxKeys - 1, Len(bucket))
           contents == SubSeq(bucket, req.nextToken, last)
           allFiles == req.allFiles \o SelectRaw(contents)
           scanned == req.scanned + Len(contents)
           isMore == last < Len(bucket)
       IN  /\ cachedRawFiles' = IF listing = "ok" THEN allFiles ELSE req.allFiles
           /\ cachedTotalRawFiles' = Len(cachedRawFiles')
           /\ hasScannedBucket' = TRUE
           /\ listRequests' = [listRequests EXCEPT ![r] =
                 IF listing = "error"
                 THEN [req EXCEPT !.pc = "answered", !.response = NoResponse]
                 ELSE IF isMore /\ scanned < MaxFilesToScan
                 THEN [req EXCEPT !.allFiles = allFiles, !.scanned = scanned,
                                  !.nextToken = last + 1]
                 ELSE [req EXCEPT !.pc = "answered", !.allFiles = allFiles,
                                  !.scanned = scanned,
                                  !.response = respondWithPage(allFiles, Len(allFiles),
                                                   req.pageNumber, PageSize)]]
    /\ UNCHANGED <<bucket, tokenPages, directPages>>

\* One turn of the loop of scanEntireBucket over the objects that its prefix
\* selects: a listing call returns keyCount keys (fewer at the end) or throws.
\* After the last turn the cache is replaced and the page is answered; a listing
\* that throws ends the request in the catch block of GET with status 500.
ScanOver(objects, r, listing, keyCount) ==
    /\ r \in DOMAIN listRequests
    /\ listRequests[r].pc = "scanning"
    /\ LET req == listRequests[r]
           last == Min(req.nextToken + keyCount - 1, Len(objects))
           contents == SubSeq(objects, req.nextToken, last)
           allFiles == req.allFiles \o SelectRaw(contents)
           scanned == req.scanned + Len(contents)
           isMore == last < Len(objects)
       IN  \/ /\ listing = "error"
              /\ listRequests' = [listRequests EXCEPT ![r] =
                                     [req EXCEPT !.pc = "answered",
                                                 !.response = NoResponse]]
              /\ UNCHANGED <<cachedRawFiles, cachedTotalRawFiles, hasScannedBucket>>
           \/ /\ listing = "ok"
              /\ isMore /\ scanned < MaxFilesToScan
              /\ listRequests' = [listRequests EXCEPT ![r] =
                                     [req EXCEPT !.allFiles = allFiles,
                                                 !.scanned = scanned,
                                                 !.nextToken = last + 1]]
              /\ UNCHANGED <<cachedRawFiles, cachedTotalRawFiles, hasScannedBucket>>
           \/ /\ listing = "ok"
              /\ ~(isMore /\ scanned < MaxFilesToScan)
              /\ cachedRawFiles' = allFiles
              /\ cachedTotalRawFiles' = Len(allFiles)
              /\ hasScannedBucket' = TRUE
              /\ listRequests' = [listRequests EXCEPT ![r] =
                                     [req EXCEPT !.pc = "answered",
                                                 !.allFiles = allFiles,
                                                 !.scanned = scanned,
                                                 !.response =
                                                     respondWithPage(allFiles,
                                                         Len(allFiles),
                                                         req.pageNumber, PageSize)]]
    /\ UNCHANGED <<bucket, tokenPages, directPages>>

\* a scan without a prefix lists the whole bucket
ScanTurn(r, listing, keyCount) == ScanOver(bucket, r, listing, keyCount)

\* the scan against a store that fills every listing up to MaxKeys
scanEntireBucket(r, listing) == ScanTurn(r, listing, ListMaxKeys)

ListingOutcomes == {"ok", "error"}
ListRequestIds == 1..MaxListRequests

\* ---- the page: the callers of the list route ----
ListedFiles(keys) == [i \in DOMAIN keys |-> ListingEntry(keys[i])]

Send(request) ==
    /\ Len(listRequests) < MaxListRequests
    /\ listRequests' = Append(listRequests, request)
    /\ UNCHANGED <<bucket, cachedRawFiles, cachedTotalRawFiles, hasScannedBucket,
                   tokenPages, directPages>>

\* resetPagination()
resetPagination ==
    /\ currentPage' = 1
    /\ continuationToken' = "undef"
    /\ files' = <<>>
    /\ totalRawFilesFound' = 0
    /\ hasMoreFilesToLoad' = TRUE
    /\ UNCHANGED <<grandTotalRawFiles, selectedFile>>

\* fetchFiles('', supplied) up to its fetch; the token of the last render is used
\* when none is supplied
FetchRequest(supplied, logical) ==
    LET tokenToUse == IF Truthy(supplied) THEN supplied ELSE continuationToken
    IN  ListRequest("fetch", tokenToUse, 1, ~Truthy(tokenToUse), logical)

\* the mount of the page
loadInitialData ==
    /\ listRequests = <<>>
    /\ Send(FetchRequest("undef", 1))
    /\ UNCHANGED pagingVars

handleGoToFirstPage ==
    /\ listRequests # <<>>
    /\ resetPagination
    /\ Send(FetchRequest("undef", 1))

handleLoadMoreFiles ==
    /\ listRequests # <<>>
    /\ Truthy(continuationToken)
    /\ currentPage' = currentPage + 1
    /\ Send(FetchRequest(continuationToken, currentPage + 1))
    /\ UNCHANGED <<files, selectedFile, continuationToken, totalRawFilesFound,
                   hasMoreFilesToLoad, grandTotalRawFiles>>

handleNavigateToPage(page) ==
    /\ listRequests # <<>>
    /\ page # currentPage
    /\ resetPagination
    /\ Send(ListRequest("navigate", "undef", page, TRUE, page))

\* setFiles of the store
setFiles(newFiles, nextToken, totalFoundInScan, hasMore, metadataMapForHydration) ==
    /\ files' = HydrateAll(newFiles, metadataMapForHydration)
    /\ selectedFile' = EmptyEntry
    /\ continuationToken' = nextToken
    /\ totalRawFilesFound' = totalFoundInScan
    /\ hasMoreFilesToLoad' = hasMore
    /\ currentPage' = 1

\* appendFiles of the store
appendFiles(newFiles, nextToken, totalAddedInScan, hasMore, metadataMapForHydration) ==
    /\ files' = files \o HydrateAll(newFiles, metadataMapForHydration)
    /\ continuationToken' = nextToken
    /\ totalRawFilesFound' = Len(files) + Len(newFiles)
    /\ hasMoreFilesToLoad' = hasMore
    /\ UNCHANGED <<selectedFile, currentPage>>

\* fetchFiles after its fetch
FetchAnswered(r) ==
    /\ r \in DOMAIN listRequests
    /\ listRequests[r].pc = "answered"
    /\ listRequests[r].kind = "fetch"
    /\ LET req == listRequests[r]
           data == req.response
           fromApi == IF data.grandTotalRawFiles > 0
                      THEN data.grandTotalRawFiles ELSE grandTotalRawFiles
           forceHasMore == Len(data.files) > 0 /\ Truthy(data.nextContinuationToken)
       IN  \/ /\ ~data.ok
              /\ UNCHANGED <<pagingVars, tokenPages>>
           \/ /\ data.ok
              /\ Truthy(req.continuationToken)
              /\ appendFiles(ListedFiles(data.files), data.nextContinuationToken,
                             data.totalFilesFoundInScan,
                             forceHasMore \/ data.hasMoreFilesAfterThisPage,
                             preloadedMetadataMap)
              /\ grandTotalRawFiles' = IF fromApi < Len(files') THEN Len(files')
                                       ELSE fromApi
              /\ tokenPages' = WithEntry(tokenPages, req.logical, data.files)
           \/ /\ data.ok
              /\ ~Truthy(req.continuationToken)
              /\ setFiles(ListedFiles(data.files), data.nextContinuationToken,
                          data.totalFilesFoundInScan,
                          forceHasMore \/ data.hasMoreFilesAfterThisPage,
                          preloadedMetadataMap)
              /\ grandTotalRawFiles' = IF fromApi < Len(files') THEN Len(files')
                                       ELSE fromApi
              /\ tokenPages' = WithEntry(tokenPages, req.logical, data.files)
    /\ listRequests' = [listRequests EXCEPT ![r] = Finished]
    /\ UNCHANGED <<bucket, cachedRawFiles, cachedTotalRawFiles, hasScannedBucket,
                   directPages>>

\* handleNavigateToPage after its fetch
NavigateAnswered(r) ==
    /\ r \in DOMAIN listRequests
    /\ listRequests[r].pc = "answered"
    /\ listRequests[r].kind = "navigate"
    /\ LET req == listRequests[r]
           data == req.response
       IN  \/ /\ ~data.ok
              /\ UNCHANGED <<pagingVars, directPages>>
           \/ /\ data.ok
              /\ files' = HydrateAll(ListedFiles(data.files), preloadedMetadataMap)
              /\ selectedFile' = EmptyEntry
              /\ continuationToken' = data.nextContinuationToken
              /\ totalRawFilesFound' = data.totalFilesFoundInScan
              /\ hasMoreFilesToLoad' = data.hasMoreFilesAfterThisPage
              /\ currentPage' = req.pageNumber
              /\ grandTotalRawFiles' = IF data.grandTotalRawFiles # 0
                                       THEN data.grandTotalRawFiles
                                       ELSE grandTotalRawFiles
              /\ directPages' = WithEntry(directPages, req.logical, data.files)
    /\ listRequests' = [listRequests EXCEPT ![r] = Finished]
    /\ UNCHANGED <<bucket, cachedRawFiles, cachedTotalRawFiles, hasScannedBucket,
                   tokenPages>>

\* ---- listings arriving at a store that holds edits ----
MaxListed == 2

\* an entry of the index snapshot
IndexedMeta ==
    [thumbnailDataUrl |-> "t2", width |-> "w2", exifDate |-> "iB",
     s3LastModified |-> "iA", size |-> "z2"]

IndexSnapshots == {EmptyDoc, "a" :> IndexedMeta, [k \in Keys |-> IndexedMeta]}

Listings ==
    {ListedFiles(<<"a">>), ListedFiles(<<"b">>), ListedFiles(<<"a", "b">>)}

\* the page is opened again: a new store and a new snapshot, the same localStorage
Reload ==
    /\ files' = <<>> /\ selectedFile' = EmptyEntry /\ continuationToken' = "undef"
    /\ totalRawFilesFound' = 0 /\ hasMoreFilesToLoad' = TRUE /\ currentPage' = 1
    /\ grandTotalRawFiles' = 0
    /\ pendingChanges' = EmptyDoc /\ metadataCache' = EmptyDoc
    /\ lastSyncTime' = 0 /\ isSyncing' = FALSE /\ syncError' = "null"
    /\ nextSyncTime' = 0 /\ scheduleTimers' = 0 /\ syncTimers' = <<>>
    /\ syncRequest' = [sent |-> FALSE, files |-> EmptyDoc]
    /\ syncResult' = "none" /\ editLog' = <<>> /\ awaitingRetry' = FALSE
    /\ preloadedMetadataMap' \in IndexSnapshots
    /\ UNCHANGED <<localStorage, editCount>>

\* a first page is put into the store
FilesSet(listing) ==
    /\ setFiles(listing, "has-more", Len(listing), TRUE, preloadedMetadataMap)
    /\ UNCHANGED <<grandTotalRawFiles, syncVars, pageVars>>

\* a further page is added to the store
FilesAppended(listing) ==
    /\ Len(files) + Len(listing) <= MaxListed
    /\ Truthy(continuationToken)
    /\ appendFiles(listing, "undef", Len(listing), FALSE, preloadedMetadataMap)
    /\ UNCHANGED <<grandTotalRawFiles, syncVars, pageVars>>

HydrateNext ==
    /\ \/ \E u \in EditUpdates : updateFileMetadata("a", u) /\ UNCHANGED pageVars
       \/ clearPendingChanges /\ UNCHANGED pageVars
       \/ Reload
       \/ \E listing \in Listings : FilesSet(listing)
       \/ \E listing \in Listings : FilesAppended(listing)
    /\ UNCHANGED <<poolVars, mergeVars, foldVars, indexVars, readVars, listVars, extraVars>>

\* the route alone, asked what the page asks
Arrives(request) ==
    /\ Len(listRequests) < MaxScans
    /\ Send(request)

ScanNext ==
    /\ \/ \E p \in Pages : Arrives(ListRequest("navigate", "undef", p, TRUE, p))
       \/ Arrives(ListRequest("fetch", "undef", 1, TRUE, 1))
       \/ Arrives(ListRequest("fetch", "has-more", 1, FALSE, 2))
       \/ \E r \in ListRequestIds : ListGet(r)
       \/ \E r \in ListRequestIds, listing \in ListingOutcomes :
              scanEntireBucket(r, listing)
    /\ UNCHANGED <<poolVars, mergeVars, foldVars, indexVars, readVars, clientVars, extraVars>>

\* the route in front of a store that may answer a listing with fewer keys
\* than MaxKeys while more remain
CapNext ==
    /\ \/ Arrives(ListRequest("fetch", "undef", 1, TRUE, 1))
       \/ \E r \in ListRequestIds : ListGet(r)
       \/ \E r \in ListRequestIds, listing \in ListingOutcomes, keyCount \in 1..ListMaxKeys :
              ScanTurn(r, listing, keyCount)
    /\ UNCHANGED <<poolVars, mergeVars, foldVars, indexVars, readVars, clientVars, extraVars>>

\* ---- requests that name a prefix ----
\* "b", "notes.txt" and "c" stand for keys that start with "dir/"
Prefixes == {"", "dir/"}
StartsWith(k, prefix) == prefix = "" \/ (prefix = "dir/" /\ k \in {"b", "notes.txt", "c"})

\* what ListObjectsV2 lists under a prefix, and the filter of respondWithPage
Under(objects, prefix) ==
    LET Matches(k) == StartsWith(k, prefix)
    IN  SelectSeq(objects, Matches)

PrefixRequest(prefix, token, pageNumber, countTotal) ==
    [prefix |-> prefix] @@ ListRequest("navigate", token, pageNumber, countTotal, pageNumber)

\* the handler up to its first await, for a request with a prefix
PrefixGet(r) ==
    /\ r \in DOMAIN listRequests
    /\ listRequests[r].pc = "sent"
    /\ LET req == listRequests[r]
           cacheReady == hasScannedBucket /\ Len(cachedRawFiles) > 0
           fromCache == (req.continuationToken = "has-more" /\ cacheReady)
                            \/ (req.continuationToken # "has-more"
                                    /\ req.pageNumber > 1 /\ cacheReady)
       IN  \/ /\ fromCache
              /\ listRequests' = [listRequests EXCEPT ![r] =
                     [req EXCEPT !.pc = "answered",
                                 !.response = respondWithPage(
                                     Under(cachedRawFiles, req.prefix),
                                     cachedTotalRawFiles, req.pageNumber, PageSize)]]
           \/ /\ ~fromCache
              /\ listRequests' = [listRequests EXCEPT ![r] = [req EXCEPT !.pc = "scanning"]]
    /\ UNCHANGED <<bucket, cachedRawFiles, cachedTotalRawFiles, hasScannedBucket,
                   tokenPages, directPages>>

\* scanEntireBucket(prefix), one turn
PrefixScan(r, listing) ==
    /\ r \in DOMAIN listRequests
    /\ ScanOver(Under(bucket, listRequests[r].prefix), r, listing, ListMaxKeys)

PrefixNext ==
    /\ \/ \E prefix \in Prefixes, token \in {"undef", "has-more"}, p \in 1..2,
             countTotal \in BOOLEAN :
              Arrives(PrefixRequest(prefix, token, p, countTotal))
       \/ \E r \in ListRequestIds : PrefixGet(r)
       \/ \E r \in ListRequestIds, listing \in ListingOutcomes : PrefixScan(r, listing)
    /\ UNCHANGED <<poolVars, mergeVars, foldVars, indexVars, readVars, clientVars, extraVars>>

\* the page and the route together
ListNext ==
    /\ \/ loadInitialData
       \/ handleGoToFirstPage
       \/ handleLoadMoreFiles
       \/ \E page \in Pages : handleNavigateToPage(page)
       \/ \E r \in ListRequestIds : FetchAnswered(r)
       \/ \E r \in ListRequestIds : NavigateAnswered(r)
       \/ /\ \/ \E r \in ListRequestIds : ListGet(r)
             \/ \E r \in ListRequestIds, listing \in ListingOutcomes :
                    scanEntireBucket(r, listing)
          /\ UNCHANGED pagingVars
    /\ UNCHANGED <<poolVars, mergeVars, foldVars, indexVars, readVars, syncVars, pageVars,
                   extraVars>>

\* ------------------------------------------------------------------------
\* One file through the decoder: processInMainThread of the pool ("pool")
\* and processRawFile ("direct")
\* ------------------------------------------------------------------------
MaxWidth == 2

\* the byte values told apart in decoded pixel data
ByteSamples == {0, 200}
\* colour-component counts: 3 and 4 are supported, 1 stands for the others
ColorCounts == {1, 3, 4}

NoImage == [width |-> 0, height |-> 0, colors |-> 0, data |-> <<>>]

\* the results of rawProcessor.imageData() that carry pixel data
Images ==
    UNION {[width : {w}, height : {1}, colors : {c},
            data : [1..(w * c) -> ByteSamples]] :
           w \in 1..MaxWidth, c \in ColorCounts}

\* what a Uint8ClampedArray keeps of a value written into it
Clamp(v) == IF v < 0 THEN 0 ELSE IF v > 255 THEN 255 ELSE v

\* reading past the end of a typed array yields undefined, stored as 0
ByteAt(data, i) == IF i \in DOMAIN data THEN data[i] ELSE 0

\* a conversion that leaves the alpha byte as the array was allocated
PaddedWithoutAlpha(decodedImage) ==
    LET numPixels == decodedImage.width * decodedImage.height
    IN  [j \in 1..(numPixels * 4) |->
            LET i == (j - 1) \div 4
                c == (j - 1) % 4
            IN  IF c = 3 THEN 0
                ELSE Clamp(ByteAt(decodedImage.data, i * 3 + c + 1))]

\* the loop that pads to RGBA: pixel i (from 0) takes bytes 3i..3i+2 and 255
PaddedToRGBA(decodedImage) ==
    LET numPixels == decodedImage.width * decodedImage.height
    IN  [j \in 1..(numPixels * 4) |->
            LET i == (j - 1) \div 4
                c == (j - 1) % 4
            IN  IF c = 3 THEN 255
                ELSE Clamp(ByteAt(decodedImage.data, i * 3 + c + 1))]

\* processedImageData of processRawFile for a supported image
processedImageData(decodedImage) ==
    IF decodedImage.colors = 4
    THEN [j \in DOMAIN decodedImage.data |-> Clamp(decodedImage.data[j])]
    ELSE PaddedToRGBA(decodedImage)

\* result.imageData of processRawFile
ResultImageData(decodedImage) ==
    [data |-> processedImageData(decodedImage),
     width |-> decodedImage.width, height |-> decodedImage.height,
     colors |-> IF decodedImage.colors = 3 THEN 4 ELSE decodedImage.colors]

Supported(decodedImage) == decodedImage.colors \in {3, 4}

NoResult == [thumbnail |-> FALSE, imageData |-> NoImage]

\* a run at its first await; the pool has reported 'Loading LibRaw...' by then
NewRun(path) ==
    [path |-> path, pc |-> "import", image |-> NoImage, held |-> {},
     events |-> IF path = "pool" THEN <<"progress">> ELSE <<>>,
     stages |-> <<>>,
     outcome |-> "none", result |-> NoResult]

Paths == {"pool", "direct"}

JobInit == pipeline \in {NewRun(path) : path \in Paths}

\* onProgress(stage) is called with the text that announces a stage
Reported(stage) == [kind |-> "report", stage |-> stage]
\* the code of a stage is entered
Entered(stage) == [kind |-> "run", stage |-> stage]
Logged(run, entries) == [run EXCEPT !.stages = @ \o entries]

\* onWorkerProgress of the pool; processRawFile has no slot events
Progress(run) ==
    IF run.path = "pool" THEN [run EXCEPT !.events = Append(@, "progress")] ELSE run

\* The run throws after its import. The pool runs its finally block and the
\* catch handler of processNextFile reports the slot; processRawFile only
\* calls onError and rethrows.
Fails(run) ==
    IF run.path = "pool"
    THEN [run EXCEPT !.pc = "settled", !.outcome = "rejected", !.held = {},
                     !.image = NoImage,
                     !.events = Append(@, "complete")]
    ELSE [run EXCEPT !.pc = "settled", !.outcome = "rejected"]

Outcomes == {"ok", "fail"}

\* the dynamic import of libraw-wasm returns
Import(outcome) ==
    /\ pipeline.pc = "import"
    /\ pipeline' =
         IF outcome = "fail"
         THEN IF pipeline.path = "pool"
              \* thrown from the first try block: no onWorkerStart was sent
              THEN [pipeline EXCEPT !.pc = "settled", !.outcome = "rejected",
                                    !.events = Append(@, "complete")]
              ELSE Fails(pipeline)
         ELSE LET fetching == Logged(pipeline, <<Reported("fetch"), Entered("fetch")>>)
              IN  IF pipeline.path = "pool"
                  THEN [fetching EXCEPT !.pc = "fetch",
                                        !.events = @ \o <<"start", "progress">>]
                  ELSE [fetching EXCEPT !.pc = "fetch"]

\* fetch(file.url) returns
Fetch(outcome) ==
    /\ pipeline.pc = "fetch"
    /\ pipeline' = IF outcome = "fail" THEN Fails(pipeline)
                   ELSE [pipeline EXCEPT !.pc = "body"]

\* response.arrayBuffer() returns; the decoder is made and open is called
Body(outcome, decoder) ==
    /\ pipeline.pc = "body"
    /\ pipeline' =
         IF outcome = "fail" THEN Fails(pipeline)
         ELSE LET withBuffer ==
                      Logged(Progress([pipeline EXCEPT !.held = @ \cup {"buffer"}]),
                             <<Reported("decode"), Entered("decode")>>)
              IN  IF decoder = "fail" THEN Fails(withBuffer)
                  ELSE [withBuffer EXCEPT !.held = @ \cup {"decoder"}, !.pc = "open"]

\* rawProcessor.open returns
Open(outcome) ==
    /\ pipeline.pc = "open"
    /\ pipeline' = IF outcome = "fail" THEN Fails(pipeline)
                   ELSE Logged(Progress([pipeline EXCEPT !.pc = "imageData"]),
                               <<Reported("decode"), Entered("decode")>>)

\* rawProcessor.imageData() returns
ImageData(decodedImage) ==
    /\ pipeline.pc = "imageData"
    /\ pipeline' =
         IF decodedImage = NoImage THEN Fails(pipeline)
         ELSE Logged(Progress([pipeline EXCEPT !.pc = "metadata",
                                               !.image = decodedImage,
                                               !.held = @ \cup {"pixels"}]),
                     <<Reported("timestamp"), Entered("timestamp")>>)

\* the thumbnail block of processInMainThread, then its return and finally
PoolThumbnail(run, canvasWorks) ==
    LET made == canvasWorks /\ Supported(run.image)
    IN  [run EXCEPT !.pc = "settled", !.outcome = "fulfilled",
                    !.stages = @ \o (IF canvasWorks THEN <<Entered("normalize")>> ELSE <<>>)
                                 \o (IF made THEN <<Entered("preview")>> ELSE <<>>)
                                 \o <<Entered("package")>>,
                    !.result = [thumbnail |-> made, imageData |-> NoImage],
                    !.held = {}, !.image = NoImage,
                    !.events = Append(@, "complete")]

\* rawProcessor.metadata() returns. The pool goes on without metadata when it
\* fails and finishes the run in this step; processRawFile converts the pixels
\* and waits for the thumbnail blob.
Metadata(outcome, canvasWorks) ==
    /\ pipeline.pc = "metadata"
    /\ pipeline' =
         IF pipeline.path = "pool"
         THEN PoolThumbnail(Logged(Progress(pipeline), <<Reported("preview")>>),
                            canvasWorks)
         ELSE IF outcome = "fail"
         THEN Fails(pipeline)
         ELSE LET converting == Logged(pipeline, <<Reported("preview"),
                                                   Entered("normalize")>>)
              IN  IF ~Supported(pipeline.image)
                  THEN Fails(converting)
                  ELSE IF canvasWorks
                  THEN [converting EXCEPT
                            !.pc = "blob",
                            !.stages = Append(@, Entered("preview")),
                            !.held = @ \cup {"rgba", "canvas", "tempCanvas"}]
                  ELSE [converting EXCEPT
                            !.pc = "index",
                            !.stages = Append(@, Entered("package")),
                            !.held = @ \cup {"rgba"}]

\* thumbCanvas.convertToBlob returns in processRawFile; a failure is swallowed
Blob(outcome) ==
    /\ pipeline.pc = "blob"
    /\ pipeline' = [pipeline EXCEPT !.pc = "index",
                                    !.stages = Append(@, Entered("package")),
                                    !.result.thumbnail = (outcome = "ok")]

\* updateS3Index returns in processRawFile, whatever its outcome; the result
\* is handed to onComplete and returned
IndexUpdated(outcome) ==
    /\ pipeline.pc = "index"
    /\ pipeline' = [pipeline EXCEPT !.pc = "settled", !.outcome = "fulfilled",
                                    !.result.imageData = ResultImageData(pipeline.image)]

JobNext ==
    /\ \/ \E outcome \in Outcomes : Import(outcome)
       \/ \E outcome \in Outcomes : Fetch(outcome)
       \/ \E outcome \in Outcomes, decoder \in Outcomes : Body(outcome, decoder)
       \/ \E outcome \in Outcomes : Open(outcome)
       \/ \E decodedImage \in Images \cup {NoImage} : ImageData(decodedImage)
       \/ \E outcome \in Outcomes, canvasWorks \in BOOLEAN :
              Metadata(outcome, canvasWorks)
       \/ \E outcome \in Outcomes : Blob(outcome)
       \/ \E outcome \in Outcomes : IndexUpdated(outcome)
    /\ UNCHANGED <<poolVars, mergeVars, foldVars, indexVars, readVars, clientVars,
                   listVars, timeVars, paceVars, urlVars, batch>>

\* ------------------------------------------------------------------------
\* batchProcessRawFiles: a list of files handed to processRawFile one after
\* the other. A file is its position in the list and whether it has a URL.
\* ------------------------------------------------------------------------
MaxFiles == 2

\* the file lists handed to batchProcessRawFiles
FileLists == UNION {[1..n -> [url : BOOLEAN]] : n \in 0..MaxFiles}

\* the call before its first statement
NewBatch(fileList) ==
    [files |-> fileList, pc |-> "start", i |-> 0, loaded |-> FALSE,
     results |-> <<>>, fileStarts |-> <<>>, fileErrors |-> <<>>,
     fileCompletes |-> <<>>, settled |-> <<>>, batchCompletes |-> 0]

BatchInit == batch \in {NewBatch(fileList) : fileList \in FileLists}

\* the results of rawProcessor.imageData() told apart by the batch
BatchImages ==
    {NoImage} \cup {image \in Images :
                       image.width = 1 /\ \A j \in DOMAIN image.data : image.data[j] = 0}

\* the first position from i on whose file has a URL, past the end if none
RECURSIVE NextWithUrl(_, _)
NextWithUrl(fileList, i) ==
    IF i > Len(fileList) \/ fileList[i].url THEN i
    ELSE NextWithUrl(fileList, i + 1)

\* processRawFile up to its first await: the import when LibRaw is not
\* loaded yet, else the fetch
CalledRun(loaded) ==
    IF loaded
    THEN [Logged(NewRun("direct"), <<Reported("fetch"), Entered("fetch")>>)
             EXCEPT !.pc = "fetch"]
    ELSE NewRun("direct")

\* the for loop from position i up to its next await or to its end
Loop(b, i) ==
    LET next == NextWithUrl(b.files, i)
    IN  IF next > Len(b.files)
        THEN /\ batch' = [b EXCEPT !.pc = "done", !.i = next,
                                   !.batchCompletes = @ + 1]
             /\ pipeline' = <<>>
        ELSE /\ batch' = [b EXCEPT !.pc = "file", !.i = next,
                                   !.fileStarts = Append(@, next)]
             /\ pipeline' = CalledRun(b.loaded)

\* batchProcessRawFiles is called
BatchStart ==
    /\ batch.pc = "start"
    /\ Loop(batch, 1)

\* a step of the processRawFile the batch is waiting for
BatchFileStep ==
    /\ batch.pc = "file"
    /\ \/ \E outcome \in Outcomes :
              /\ Import(outcome)
              /\ batch' = [batch EXCEPT !.loaded = (outcome = "ok")]
       \/ /\ \/ \E outcome \in Outcomes : Fetch(outcome)
             \/ \E outcome \in Outcomes, decoder \in Outcomes : Body(outcome, decoder)
             \/ \E outcome \in Outcomes : Open(outcome)
             \/ \E decodedImage \in BatchImages : ImageData(decodedImage)
             \/ \E outcome \in Outcomes, canvasWorks \in BOOLEAN :
                    Metadata(outcome, canvasWorks)
             \/ \E outcome \in Outcomes : Blob(outcome)
             \/ \E outcome \in Outcomes : IndexUpdated(outcome)
          /\ UNCHANGED batch

\* the catch block of processRawFile calls the onError it was given, which
\* is the batch's onFileError for the file
OnErrorCalls(run, i) == IF run.outcome = "rejected" THEN <<i>> ELSE <<>>

\* the catch block of the batch around its await of processRawFile
OnCatchCalls(run, i) == IF run.outcome = "rejected" THEN <<i>> ELSE <<>>

\* the await of processRawFile returns or throws; the loop goes on
BatchFileSettled ==
    /\ batch.pc = "file"
    /\ pipeline.pc = "settled"
    /\ LET i == batch.i
           ok == pipeline.outcome = "fulfilled"
           after ==
               [batch EXCEPT
                  !.settled = Append(@, [file |-> i, outcome |-> pipeline.outcome]),
                  !.results = IF ok THEN Append(@, i) ELSE @,
                  !.fileCompletes = IF ok THEN Append(@, i) ELSE @,
                  !.fileErrors = @ \o OnErrorCalls(pipeline, i)
                                   \o OnCatchCalls(pipeline, i)]
       IN  Loop(after, i + 1)

FilesNext ==
    /\ \/ BatchStart
       \/ BatchFileStep
       \/ BatchFileSettled
    /\ UNCHANGED <<poolVars, mergeVars, foldVars, indexVars, readVars, clientVars,
                   listVars, timeVars, paceVars, urlVars>>

\* ------------------------------------------------------------------------
\* The update queue of POST /api/metadata/index on a clock: the rate limit
\* at the head of performUpdate. One tick of the clock is 250 ms.
\* ------------------------------------------------------------------------
MaxPaced == 2
MaxTime == 7
\* the 500 ms between two index writes, in ticks
MinInterval == 2

\* an update that starts without looking at the last write
NoRateLimit(t, last) == t

\* the time at which performUpdate goes on to getIndexFile when it starts at
\* t and the last write was sent at last
RateLimit(t, last) == IF t - last < MinInterval THEN t + (MinInterval - (t - last)) ELSE t

\* Date.now() is far beyond the interval when the process starts
PaceInit ==
    /\ now = MinInterval
    /\ lastIndexUpdate = 0
    /\ readyAt = <<>>
    /\ putTimes = <<>>
    /\ waited = {}

\* the head of performUpdate for the update that this step has dequeued, if any
UpdateStarts ==
    IF Len(started') > Len(started)
    THEN LET id == started'[Len(started')]
         IN  /\ readyAt' = readyAt @@ (id :> RateLimit(now, lastIndexUpdate))
             /\ waited' = IF now - lastIndexUpdate < MinInterval
                          THEN waited \cup {id} ELSE waited
    ELSE UNCHANGED <<readyAt, waited>>

PacedPost(fileKey, metadata) ==
    /\ Len(requests) < MaxPaced
    /\ PostIndex(fileKey, metadata)
    /\ UNCHANGED <<now, lastIndexUpdate, readyAt, putTimes, waited>>

PacedBackoffEnds(id) ==
    /\ BackoffEnds(id)
    /\ UpdateStarts
    /\ UNCHANGED <<now, lastIndexUpdate, putTimes>>

\* the wait is over and GetObject has answered; lastIndexUpdate is set as the
\* put is sent
PacedRead(id, outcome) ==
    /\ id \in DOMAIN readyAt
    /\ now >= readyAt[id]
    /\ IndexRead(id, outcome)
    /\ UpdateStarts
    /\ IF SingleThrows(requests[id].metadata)
       THEN UNCHANGED <<lastIndexUpdate, putTimes>>
       ELSE /\ lastIndexUpdate' = now
            /\ putTimes' = Append(putTimes, now)
    /\ UNCHANGED now

PacedPut(id, success) ==
    /\ IndexPut(id, success)
    /\ UpdateStarts
    /\ UNCHANGED <<now, lastIndexUpdate, putTimes>>

\* 250 ms pass
ClockTick ==
    /\ now < MaxTime
    /\ now' = now + 1
    /\ UNCHANGED <<indexVars, lastIndexUpdate, readyAt, putTimes, waited>>

PacedIds == 1..MaxPaced

PaceNext ==
    /\ \/ \E k \in {"a", NoKey}, m \in {WidthOne, "exifDate" :> "obj"} : PacedPost(k, m)
       \/ \E id \in PacedIds : PacedBackoffEnds(id)
       \/ \E id \in PacedIds, o \in GetOutcomes : PacedRead(id, o)
       \/ \E id \in PacedIds, ok \in BOOLEAN : PacedPut(id, ok)
       \/ ClockTick
    /\ UNCHANGED <<poolVars, mergeVars, foldVars, readVars, clientVars, listVars,
                   jobVars, urlVars>>

\* ------------------------------------------------------------------------
\* GET /api/s3/file: presigned URLs and their cache. One tick of the clock
\* is 180 s here.
\* ------------------------------------------------------------------------
MaxUrlRequests == 1
MaxClock == 21
\* expiresIn of the presigned URL (3600 s) and the life of its cache entry
\* (expiresIn * 950 ms = 3420 s), in ticks
ExpiresIn == 20
CacheLife == 19

UrlInit ==
    /\ now = 0
    /\ urlCache = <<>>
    /\ urlRequests = <<>>
    /\ returned = <<>>

\* a cache that hands out whatever it holds
CacheHitAlways(cache, key, t) == key \in DOMAIN cache

\* urlCache[key] && urlCache[key].expiresAt > now
CacheHit(cache, key, t) == key \in DOMAIN cache /\ cache[key].expiresAt > t

\* The handler up to its await of getSignedUrl. urlRequests holds the calls
\* that wait for their signature, returned holds the last answer if it
\* carried a URL.
UrlGet(key) ==
    IF key = NoKey
    THEN /\ returned' = <<>>
         /\ UNCHANGED <<urlRequests, urlCache, now>>
    ELSE IF CacheHit(urlCache, key, now)
    THEN /\ returned' = <<[url |-> urlCache[key].url, at |-> now, cached |-> TRUE]>>
         /\ UNCHANGED <<urlRequests, urlCache, now>>
    ELSE /\ Len(urlRequests) < MaxUrlRequests
         /\ urlRequests' = Append(urlRequests, [key |-> key, now |-> now])
         /\ UNCHANGED <<returned, urlCache, now>>

Without(q, r) == SubSeq(q, 1, r - 1) \o SubSeq(q, r + 1, Len(q))

\* getSignedUrl returns a URL signed at signedAt, or throws
UrlSigned(r, ok, signedAt) ==
    /\ r \in DOMAIN urlRequests
    /\ LET req == urlRequests[r]
           signedUrl == [key |-> req.key, signedAt |-> signedAt]
       IN  /\ signedAt \in {req.now, now}
           /\ IF ok
              THEN /\ urlCache' = [k \in DOMAIN urlCache \cup {req.key} |->
                                      IF k = req.key
                                      THEN [url |-> signedUrl,
                                            expiresAt |-> req.now + CacheLife]
                                      ELSE urlCache[k]]
                   /\ returned' = <<[url |-> signedUrl, at |-> now, cached |-> FALSE]>>
              ELSE /\ returned' = <<>>
                   /\ UNCHANGED urlCache
    /\ urlRequests' = Without(urlRequests, r)
    /\ UNCHANGED now

\* the interval timer that drops the entries past their expiry
CacheCleanup ==
    /\ \E k \in DOMAIN urlCache : urlCache[k].expiresAt < now
    /\ urlCache' = [k \in {x \in DOMAIN urlCache : ~(urlCache[x].expiresAt < now)} |->
                       urlCache[k]]
    /\ UNCHANGED <<urlRequests, returned, now>>

\* 180 s pass
UrlTick ==
    /\ now < MaxClock
    /\ now' = now + 1
    /\ UNCHANGED <<urlCache, urlRequests, returned>>

UrlRequestIds == 1..MaxUrlRequests

UrlNext ==
    /\ \/ \E key \in {"a", NoKey} : UrlGet(key)
       \/ \E r \in UrlRequestIds, ok \in BOOLEAN, signedAt \in 0..MaxClock :
              UrlSigned(r, ok, signedAt)
       \/ CacheCleanup
       \/ UrlTick
    /\ UNCHANGED <<poolVars, mergeVars, foldVars, indexVars, readVars, clientVars, listVars,
                   jobVars, paceVars>>

\* no file is being decoded, the clock stands at 0, no URL has been signed
ExtraIdle ==
    /\ pipeline = <<>>
    /\ batch = <<>>
    /\ now = 0
    /\ lastIndexUpdate = 0
    /\ readyAt = <<>>
    /\ putTimes = <<>>
    /\ waited = {}
    /\ urlCache = <<>>
    /\ urlRequests = <<>>
    /\ returned = <<>>

\* a fresh pool and a fresh server process with no index object
Init == PoolInit /\ MergeIdle /\ FoldIdle /\ IndexInit /\ ReadInit /\ ClientInit /\ ListInit /\ ExtraIdle

\* an entry and an update about to be merged
InitMerge == PoolInit /\ MergeInit /\ FoldIdle /\ IndexInit /\ ReadInit /\ ClientInit /\ ListInit /\ ExtraIdle

\* an entry about to receive a sequence of updates
InitFold == PoolInit /\ MergeIdle /\ FoldInit /\ IndexInit /\ ReadInit /\ ClientInit /\ ListInit /\ ExtraIdle

\* a store that shows the file "a" and has no unsaved change
InitSync == PoolInit /\ MergeIdle /\ FoldIdle /\ IndexInit /\ ReadInit /\ PagingLoaded /\ SyncInit /\ PageInit /\ ListInit /\ ExtraIdle

\* one merge through either route
SpecMerge == InitMerge /\ [][MergeNext]_vars

\* a sequence of updates through both routes
SpecFold == InitFold /\ [][FoldNext]_vars

\* edits and their synchronisation
SpecSync == InitSync /\ [][SyncNext]_vars

\* the same, where timers fire, time passes and requests are answered
SpecSyncFair ==
    /\ InitSync
    /\ [][SyncNext]_vars
    /\ WF_syncVars(ScheduleTimerFires)
    /\ WF_syncVars(\E i \in TimerIds : SyncTimerFires(i))
    /\ WF_syncVars(Tick)
    /\ WF_syncVars(SyncSucceeded \/ \E kind \in FailureKinds : SyncFailed(kind))

\* readers and writers of the index
SpecRead == Init /\ [][ReadNext]_vars

\* a bucket with objects in front of a fresh server process and a fresh page
InitList == PoolInit /\ MergeIdle /\ FoldIdle /\ IndexInit /\ ReadInit /\ ClientInit /\ ListStart /\ ExtraIdle

SpecScan == InitList /\ [][ScanNext]_vars

SpecList == InitList /\ [][ListNext]_vars
SpecCap == InitList /\ [][CapNext]_vars
SpecPrefix == InitList /\ [][PrefixNext]_vars

\* a file has been handed to the decoder on one of the two paths
InitJob ==
    /\ PoolInit /\ MergeIdle /\ FoldIdle /\ IndexInit /\ ReadInit /\ ClientInit
    /\ ListInit /\ JobInit /\ batch = <<>> /\ now = 0 /\ lastIndexUpdate = 0 /\ readyAt = <<>>
    /\ putTimes = <<>> /\ waited = {} /\ urlCache = <<>> /\ urlRequests = <<>>
    /\ returned = <<>>

SpecJob == InitJob /\ [][JobNext]_vars

\* the index route on a clock
InitPace ==
    /\ PoolInit /\ MergeIdle /\ FoldIdle /\ IndexInit /\ ReadInit /\ ClientInit
    /\ ListInit /\ PaceInit /\ pipeline = <<>> /\ batch = <<>> /\ urlCache = <<>>
    /\ urlRequests = <<>> /\ returned = <<>>

SpecPace == InitPace /\ [][PaceNext]_vars

\* the file-URL route with an empty cache
InitUrl ==
    /\ PoolInit /\ MergeIdle /\ FoldIdle /\ IndexInit /\ ReadInit /\ ClientInit
    /\ ListInit /\ UrlInit /\ pipeline = <<>> /\ batch = <<>> /\ lastIndexUpdate = 0
    /\ readyAt = <<>> /\ putTimes = <<>> /\ waited = {}

SpecUrl == InitUrl /\ [][UrlNext]_vars

\* a list of files about to be handed to batchProcessRawFiles
InitFiles ==
    /\ PoolInit /\ MergeIdle /\ FoldIdle /\ IndexInit /\ ReadInit /\ ClientInit
    /\ ListInit /\ BatchInit /\ pipeline = <<>> /\ now = 0 /\ lastIndexUpdate = 0
    /\ readyAt = <<>> /\ putTimes = <<>> /\ waited = {} /\ urlCache = <<>>
    /\ urlRequests = <<>> /\ returned = <<>>

SpecFiles == InitFiles /\ [][FilesNext]_vars

\* a fresh store and a page that loaded some index snapshot
InitHydrate ==
    /\ PoolInit /\ MergeIdle /\ FoldIdle /\ IndexInit /\ ReadInit
    /\ PagingInit /\ SyncInit /\ preloadedMetadataMap \in IndexSnapshots
    /\ ListInit /\ ExtraIdle

SpecHydrate == InitHydrate /\ [][HydrateNext]_vars

\* the single-key route alone
SpecQueue == Init /\ [][QueueNext]_vars

\* a few requests to the single-key route
MaxQueued == 2
QueuedIds == 1..MaxQueued

Queued(fileKey, metadata) ==
    /\ Len(requests) < MaxQueued
    /\ PostIndex(fileKey, metadata)

DrainNext ==
    /\ \/ \E k \in Keys \cup {NoKey}, m \in {WidthOne, "exifDate" :> "obj"} : Queued(k, m)
       \/ \E id \in QueuedIds : BackoffEnds(id)
       \/ \E id \in QueuedIds, o \in GetOutcomes : IndexRead(id, o)
       \/ \E id \in QueuedIds, ok \in BOOLEAN : IndexPut(id, ok)
    /\ UNCHANGED <<poolVars, mergeVars, foldVars, readVars, clientVars, listVars, extraVars>>

\* the route where backoff timers fire and store calls are answered
SpecQueueFair ==
    /\ Init
    /\ [][DrainNext]_vars
    /\ WF_indexVars(\E id \in QueuedIds : BackoffEnds(id))
    /\ WF_indexVars(\E id \in QueuedIds, o \in GetOutcomes : IndexRead(id, o))
    /\ WF_indexVars(\E id \in QueuedIds, ok \in BOOLEAN : IndexPut(id, ok))

\* both routes
SpecIndex == Init /\ [][IndexNext]_vars

\* ------------------------------------------------------------------------
\* Specifications of the worker pool
\* ------------------------------------------------------------------------
\* the batch usage of the pool: queue files, run, jobs settle
BatchNext ==
    \/ \E n \in 1..2 : addFiles(n)
    \/ processAllQueued
    \/ \E j \in Jobs, w \in WorkerIds : JobSucceeds(j, w)
    \/ \E j \in Jobs, w \in WorkerIds : JobFails(j, w)

RunNext ==
    /\ \/ BatchNext
       \/ processFile
    /\ UNCHANGED <<mergeVars, foldVars, indexVars, readVars, clientVars, listVars, extraVars>>

PoolNext ==
    /\ \/ BatchNext
       \/ stopProcessing
    /\ UNCHANGED <<mergeVars, foldVars, indexVars, readVars, clientVars, listVars, extraVars>>

\* a pool that is never stopped
SpecRun == Init /\ [][RunNext]_vars

\* a batch pool with stopProcessing
SpecPool == Init /\ [][PoolNext]_vars

\* callers of processFile and of stopProcessing
StopNext ==
    /\ \/ processFile
       \/ \E j \in Jobs, w \in WorkerIds : JobSucceeds(j, w)
       \/ \E j \in Jobs, w \in WorkerIds : JobFails(j, w)
       \/ stopProcessing
    /\ UNCHANGED <<mergeVars, foldVars, indexVars, readVars, clientVars, listVars, extraVars>>

\* the same, where every started fetch and decode settles
SpecStopFair ==
    /\ Init
    /\ [][StopNext]_vars
    /\ WF_poolVars(\E j \in Jobs, w \in WorkerIds : JobSucceeds(j, w) \/ JobFails(j, w))

\* ------------------------------------------------------------------------
\* Properties of the worker pool
\* ------------------------------------------------------------------------
CreatedJobs == 1..Len(jobKind)
CreatedRuns == 1..Len(promiseState)
BatchJobs == {j \in CreatedJobs : jobKind[j] = "batch"}

\* C1: in a pool that is not stopped, the number of jobs that were dequeued
\* and have not settled never exceeds maxWorkers, whatever the settlement
\* order and whichever jobs fail.
C1_InFlightAtMostMaxWorkers == Cardinality(inFlight) <= MaxWorkers

\* a run over more files than slots: a job has failed and all slots are busy
C1_Witness ==
    /\ Cardinality(inFlight) = MaxWorkers
    /\ Len(jobKind) > MaxWorkers
    /\ isProcessing
    /\ failedJobs # {}

\* a step on which the aggregate promise r becomes resolved
BecomesResolved(r) ==
    /\ r \in DOMAIN promiseState'
    /\ promiseState'[r] = "resolved"
    /\ ~(r \in DOMAIN promiseState /\ promiseState[r] = "resolved")

\* C2: the promise of a run is resolved by exactly one call of its resolver,
\* and the step that resolves it ends in a state with an empty queue,
\* activeWorkers = 0 and no dequeued job unsettled.
C2_ResolvesOnceWhenIdle ==
    /\ [](\A r \in CreatedRuns :
            /\ resolveCalls[r] <= 1
            /\ (promiseState[r] = "resolved") = (resolveCalls[r] = 1))
    /\ [][\A r \in RunIds :
            BecomesResolved(r) =>
                (Len(fileQueue') = 0 /\ activeWorkers' = 0 /\ inFlight' = {})]_vars

\* a run over more jobs than slots, one of them failing, has resolved
C2_Witness ==
    /\ Len(promiseState) >= 1
    /\ promiseState[1] = "resolved"
    /\ Len(results) + Cardinality(errors) > MaxWorkers
    /\ errors # {}
    /\ Len(results) > 0

\* C3: a stopProcessing step rejects every pending run promise and empties
\* the queue, and a job that stopProcessing removed from the queue never
\* gets an onWorkerComplete event or a completion-handler call.
C3_StopRejectsAndSilencesQueued ==
    /\ [](\A j \in dropped :
            /\ completeCount[j] = 0
            /\ handlerCalls[j] = 0
            /\ \A p \in inFlight : p[1] # j)
    /\ [][stopProcessing =>
            (/\ Len(fileQueue') = 0
             /\ \A r \in CreatedRuns :
                    promiseState[r] = "pending" => promiseState'[r] = "rejected")]_vars

\* a run was stopped with jobs waiting and jobs in flight; the abandoned
\* jobs have settled since
C3_Witness ==
    /\ dropped # {}
    /\ abandoned # {}
    /\ inFlight = {}
    /\ Len(promiseState) >= 1
    /\ promiseState[1] = "rejected"

\* C4: when a job that was in flight at stopProcessing settles, the slot
\* bookkeeping (activeWorkers, availableWorkers, activeTasks, results) is
\* left as it was.
C4_AbandonedSettlementIgnored ==
    [][\A p \in inFlight :
          (p[1] \in abandoned /\ p \notin inFlight') =>
              (/\ activeWorkers' = activeWorkers
               /\ availableWorkers' = availableWorkers
               /\ activeTasks' = activeTasks
               /\ results' = results)]_vars

\* C5: a failing job gets exactly one onWorkerComplete event, with the
\* error, and one completion-handler call; an addFiles job is recorded in
\* errors; the slot that failed takes the next queued job; no run promise
\* is rejected; and once nothing is queued or in flight every addFiles job
\* has had exactly one completion-handler call.
C5_FailureIsolated ==
    /\ [](/\ \A j \in failedJobs :
                /\ completeCount[j] = 1
                /\ completeErrCount[j] = 1
                /\ (j \in BatchJobs => handlerCalls[j] = 1)
          /\ \A j \in CreatedJobs : handlerCalls[j] <= 1
          /\ \A r \in CreatedRuns : promiseState[r] # "rejected"
          /\ (Len(fileQueue) = 0 /\ inFlight = {}) =>
                \A j \in BatchJobs : handlerCalls[j] = 1)
    /\ [][\A j \in Jobs :
            (j \in failedJobs' /\ j \notin failedJobs) =>
                (/\ (jobKind[j] = "batch" => j \in errors')
                 /\ (Len(fileQueue) > 0 =>
                        (/\ fileQueue' = Tail(fileQueue)
                         /\ Cardinality(inFlight') = Cardinality(inFlight))))]_vars

\* a run of three files on two slots has resolved although the first file
\* failed; the files after it were processed
C5_Witness ==
    /\ Len(promiseState) >= 1
    /\ promiseState[1] = "resolved"
    /\ 1 \in failedJobs
    /\ 1 \in errors
    /\ Len(results) = 2
    /\ \A j \in 1..3 : j \in BatchJobs /\ handlerCalls[j] = 1

\* ------------------------------------------------------------------------
\* Properties of the metadata merge
\* ------------------------------------------------------------------------
\* the fields of the update that carry a defined value
Defined(u) == {f \in DOMAIN u : u[f] # "undef"}

\* the forms in which a route may store an incoming value of field f
Renderings(f, v) ==
    IF f \in DateFields
    THEN {v, StringOf(v)} \cup (IF ValidDate(v) THEN {ToISO(v)} ELSE {})
    ELSE {v}

\* a merge has been carried out and stored
Merged == mPath \in {"single", "batch"} /\ ~mResult.threw

\* fields without a defined incoming value are left exactly as they were
UndefinedFieldsKept ==
    /\ DOMAIN mExisting \subseteq DOMAIN mResult.entry
    /\ \A f \in Fields \ Defined(mUpdate) :
        /\ f \in DOMAIN mResult.entry <=> f \in DOMAIN mExisting
        /\ f \in DOMAIN mExisting => mResult.entry[f] = mExisting[f]

\* the batch route keeps a stored thumbnail when the incoming one is falsy
ThumbnailPreserved(f) ==
    /\ mPath = "batch"
    /\ f = "thumbnailDataUrl"
    /\ ~Truthy(Get(mUpdate, f))
    /\ Truthy(Get(mExisting, f))

C10_RoutesAgree == foldSingle = foldBatch

\* ------------------------------------------------------------------------
\* Properties of the index update queue
\* ------------------------------------------------------------------------
\* requests and batches between the sending of their GetObject and the
\* answer to their PutObject
RequestsInCycle == {id \in DOMAIN requests : requests[id].upc \in {"reading", "putting"}}
BatchesInCycle == {b \in DOMAIN batches : batches[b].pc \in {"reading", "putting"}}

\* C6: at most one read-modify-write cycle of the index object is in flight
\* at any time, counting the single-key route and the batch route together.
C6_OneCycleInFlight ==
    Cardinality(RequestsInCycle) + Cardinality(BatchesInCycle) <= 1

\* ids of the requests that were enqueued, in submission order
Submitted == SelectSeq([i \in DOMAIN requests |-> i],
                       LAMBDA i : requests[i].upc # "rejected")

IsPrefix(p, q) == Len(p) <= Len(q) /\ SubSeq(q, 1, Len(p)) = p
Increasing(q) == \A i, j \in DOMAIN q : i < j => q[i] < q[j]

\* C7: single-key writes begin, and reach the index object, in the order in
\* which they were submitted, whatever the order in which the backoff timers
\* of their requests fire.
C7_AppliedInSubmissionOrder ==
    /\ IsPrefix(started, Submitted)
    /\ Increasing(applied)
    /\ Range(applied) \subseteq Range(started)
    /\ \A id \in DOMAIN requests :
        requests[id].upc \in {"reading", "putting"} =>
            /\ started # <<>>
            /\ started[Len(started)] = id

\* the second of two writes to one key was applied last although the backoff
\* of the first request has not ended: the timer of the second drove both
C7_Witness ==
    /\ applied = <<1, 2>>
    /\ requests[1].handler = "backoff"
    /\ requests[2].handler = "done"
    /\ requests[1].fileKey = requests[2].fileKey
    /\ requests[1].metadata = WidthTwo
    /\ requests[2].metadata = WidthOne
    /\ store.files = (requests[1].fileKey :> WidthOne)

\* the document that results from the writes ids, one after the other
RECURSIVE FoldWrites(_, _)
FoldWrites(doc, ids) ==
    IF ids = <<>> THEN doc
    ELSE LET r == requests[Head(ids)]
         IN  FoldWrites(WithEntry(doc, r.fileKey,
                            SingleMerged(EntryOf(doc, r.fileKey), r.metadata)),
                        Tail(ids))

\* C8: every queued write re-reads the index before it merges, so the stored
\* document reflects every write that succeeded so far.
C8_StoreReflectsEveryWrite ==
    store.files = FoldWrites(EmptyDoc, applied)

\* ------------------------------------------------------------------------
\* Properties of the pending changes and their synchronisation
\* ------------------------------------------------------------------------
\* C11: a pending change leaves pendingChanges only when a batch-update
\* request that carried this change is answered OK (or when the user
\* discards the changes with clearPendingChanges); this holds for edits
\* made while a request is in flight as well.
C11_ClearedOnlyAfterConfirmedWrite ==
    [][\A k \in DOMAIN pendingChanges :
            k \notin DOMAIN pendingChanges' =>
                \/ clearPendingChanges
                \/ /\ SyncSucceeded
                   /\ k \in DOMAIN syncRequest.files
                   /\ syncRequest.files[k] = JsonEntry(pendingChanges[k])]_vars

\* C12: after a failed sync that leaves changes pending, syncChangesToS3 is
\* eventually called again without any action of the user.
C12_FailedSyncRetried ==
    (awaitingRetry /\ DOMAIN pendingChanges # {}) ~> ~awaitingRetry

\* the request in flight ends otherwise than by an OK answer
SyncRequestFails == syncRequest.sent /\ ~syncRequest'.sent /\ syncResult' # "resolved"

\* C13: when the batch-update request fails, syncChangesToS3 throws,
\* pendingChanges is left as it was, syncError is set and isSyncing is
\* false again.
C13_FailureKeepsPendingChanges ==
    [][SyncRequestFails =>
            /\ syncResult' = "threw"
            /\ pendingChanges' = pendingChanges
            /\ syncError' # "null"
            /\ isSyncing' = FALSE]_vars

\* a sync has failed and the changes of both keys are still pending
C13_Witness ==
    /\ syncResult = "threw"
    /\ syncError = "Failed to sync"
    /\ ~isSyncing
    /\ DOMAIN pendingChanges = Keys
    /\ nextSyncTime = RetryDelay

\* ------------------------------------------------------------------------
\* Properties of reading the index
\* ------------------------------------------------------------------------
\* C14: when reading the index object fails for another reason than its
\* absence, the read endpoint and both update endpoints answer with an error
\* and do not take the document for empty.
C14_ReadErrorSurfaced ==
    [][/\ (store.exists /\ GetIndex("error")) => lastGet'.status # 200
       /\ \A id \in DOMAIN requests :
            (store.exists /\ IndexRead(id, "error")) =>
                /\ requests'[id].status = 500
                /\ requests'[id].upc = "done"
       /\ \A b \in DOMAIN batches :
            (store.exists /\ BatchRead(b, "error")) =>
                /\ batches'[b].status = 500
                /\ batches'[b].pc = "done"]_vars

\* C15: while the index object does not exist, the read endpoint answers
\* 200 with the default document, and an update on either route starts from
\* the default document.
C15_MissingIndexReadsAsDefault ==
    [][~store.exists =>
        /\ GetIndex("ok") => lastGet' = [status |-> 200, files |-> EmptyDoc]
        /\ \A id \in DOMAIN requests :
            IndexRead(id, "ok") =>
                /\ requests'[id].upc = "putting"
                /\ requests'[id].doc =
                    (requests[id].fileKey :> SingleMerged(EmptyEntry, requests[id].metadata))
        /\ \A b \in DOMAIN batches :
            BatchRead(b, "ok") =>
                /\ batches'[b].pc = "putting"
                /\ batches'[b].doc =
                    [k \in DOMAIN batches[b].files |->
                        BatchMerged(EmptyEntry, batches[b].files[k])]]_vars

\* no index object yet: the read endpoint has answered 200 with the default
\* document and an update of each route is about to put its first document
C15_Witness ==
    /\ ~store.exists
    /\ lastGet = [status |-> 200, files |-> EmptyDoc]
    /\ \E id \in DOMAIN requests :
        requests[id].upc = "putting" /\ requests[id].doc = ("a" :> WidthOne)
    /\ \E b \in DOMAIN batches :
        batches[b].pc = "putting" /\ batches[b].doc = ("b" :> WidthTwo)

\* ------------------------------------------------------------------------
\* GET /api/s3/list and the paging of the page
\* ------------------------------------------------------------------------

\* C16: for every logical page, the files delivered for it by load-more
\* navigation (the continuation token) are the files delivered for it by
\* page-number navigation, the scan cache and the page size being the same.
C16_NavigationsAgree ==
    \A p \in DOMAIN tokenPages \cap DOMAIN directPages :
        tokenPages[p] = directPages[p]

\* C17: grandTotalRawFiles never decreases, whatever listing responses, page
\* navigations and resets of the pagination happen.
C17_GrandTotalNeverDecreases ==
    [][grandTotalRawFiles' >= grandTotalRawFiles]_vars

\* how far a scan that is not interrupted reads into the bucket
ScanExtent ==
    Min(Len(bucket),
        ((MaxFilesToScan + ListMaxKeys - 1) \div ListMaxKeys) * ListMaxKeys)

ScanCache == <<cachedRawFiles, cachedTotalRawFiles, hasScannedBucket>>

\* C18: a listing call that fails during a scan fails the request and leaves
\* cachedRawFiles, cachedTotalRawFiles and hasScannedBucket as they were; the
\* cache changes only in the step that ends a scan successfully, and then to
\* the whole result of that scan.
C18_FailedScanKeepsCache ==
    [][/\ \A r \in ListRequestIds :
            scanEntireBucket(r, "error") =>
                /\ ScanCache' = ScanCache
                /\ listRequests'[r].pc = "answered"
                /\ ~listRequests'[r].response.ok
       /\ ScanCache' # ScanCache =>
            \E r \in DOMAIN listRequests :
                /\ listRequests[r].pc = "scanning"
                /\ listRequests'[r].pc = "answered"
                /\ listRequests'[r].response.ok
                /\ cachedRawFiles' = SelectRaw(SubSeq(bucket, 1, ScanExtent))
                /\ cachedTotalRawFiles' = Len(cachedRawFiles')
                /\ hasScannedBucket']_vars

\* a scan failed after its first listing while the cache held an earlier scan
C18_Witness ==
    \E r \in DOMAIN listRequests :
        /\ listRequests[r].pc = "answered"
        /\ ~listRequests[r].response.ok
        /\ listRequests[r].scanned > 0
        /\ hasScannedBucket
        /\ Len(cachedRawFiles) > Len(listRequests[r].allFiles)
        /\ cachedTotalRawFiles = Len(cachedRawFiles)

\* ------------------------------------------------------------------------
\* hydration of listing entries
\* ------------------------------------------------------------------------

\* every field of h is the field of the listing entry or, converted or not,
\* the field of the one source
OnlyFrom(h, file, source) ==
    \A f \in DOMAIN h :
        \/ f \in DOMAIN file /\ h[f] = file[f]
        \/ f \in DOMAIN source /\ h[f] \in {source[f], NewDate(source[f])}
        \/ /\ f = "lastModified" /\ "s3LastModified" \in DOMAIN source
           /\ h[f] = NewDate(source["s3LastModified"])

\* h is the listing entry enriched by the first source that knows its key
EnrichedFromFirst(h, file, metadataMap) ==
    LET k == file["key"]
    IN  IF k \in DOMAIN metadataCache
        THEN /\ DOMAIN h = DOMAIN file \cup DOMAIN metadataCache[k]
             /\ \A f \in DOMAIN h :
                    h[f] = IF f \in DOMAIN metadataCache[k]
                           THEN metadataCache[k][f] ELSE file[f]
        ELSE IF k \in DOMAIN localStorage
        THEN /\ OnlyFrom(h, file, localStorage[k])
             /\ \A f \in {"thumbnailDataUrl", "width"} :
                    Truthy(Get(localStorage[k], f)) => Get(h, f) = localStorage[k][f]
        ELSE IF k \in DOMAIN metadataMap
        THEN /\ OnlyFrom(h, file, metadataMap[k])
             /\ \A f \in {"thumbnailDataUrl", "width"} :
                    Truthy(Get(metadataMap[k], f)) => Get(h, f) = metadataMap[k][f]
        ELSE h = file

\* C19: setFiles and appendFiles enrich each listing entry from the first
\* source that has the key and from no other: metadataCache, else the
\* localStorage entry, else the index snapshot; a source of lower precedence
\* adds and overrides nothing.
C19_FirstSourceOnly ==
    [][\A listing \in Listings :
          /\ FilesSet(listing) =>
                \A i \in DOMAIN listing :
                    EnrichedFromFirst(files'[i], listing[i], preloadedMetadataMap)
          /\ FilesAppended(listing) =>
                \A i \in DOMAIN listing :
                    EnrichedFromFirst(files'[Len(files) + i], listing[i],
                                      preloadedMetadataMap)]_vars

\* a listed file took its metadata from the cache although localStorage and
\* the snapshot know the key too, the snapshot with a thumbnail the cache lacks
C19_Witness ==
    \E i \in DOMAIN files :
        LET k == files[i]["key"]
        IN  /\ k \in DOMAIN metadataCache
            /\ k \in DOMAIN localStorage
            /\ k \in DOMAIN preloadedMetadataMap
            /\ files[i] = Spread(ListingEntry(k), metadataCache[k])
            /\ "thumbnailDataUrl" \notin DOMAIN files[i]
            /\ Truthy(preloadedMetadataMap[k]["thumbnailDataUrl"])
            /\ metadataCache[k] # localStorage[k]

\* ------------------------------------------------------------------------
\* edits that meet in pendingChanges
\* ------------------------------------------------------------------------

\* the edits of key k since pendingChanges was last emptied that define field f
EditsDefining(log, k, f) ==
    {i \in DOMAIN log :
        /\ log[i][1] = k
        /\ f \in DOMAIN log[i][2]
        /\ log[i][2][f] # "undef"}

\* the value the latest of them gave to f, as the store keeps it
LatestValue(log, k, f) ==
    LET defining == EditsDefining(log, k, f)
        latest == CHOOSE i \in defining : \A j \in defining : j <= i
        v == log[latest][2][f]
    IN  IF f = "exifDate" THEN EditDate(v) ELSE v

EditedKeys(log) == {log[i][1] : i \in DOMAIN log}
DefinedFields(log, k) == {f \in Fields : EditsDefining(log, k, f) # {}}

\* C20: the edits made to a key since pendingChanges was last emptied are one
\* entry of pendingChanges, whose fields are the key and every field that one
\* of the edits defined, each with the value of the latest edit that defined
\* it; a batch request that is sent then carries exactly one such entry for
\* each edited key.
C20_EditsCollapse ==
    [][/\ DOMAIN pendingChanges' = EditedKeys(editLog')
       /\ \A k \in DOMAIN pendingChanges' :
            /\ DOMAIN pendingChanges'[k] = {"key"} \cup DefinedFields(editLog', k)
            /\ pendingChanges'[k]["key"] = k
            /\ \A f \in DefinedFields(editLog', k) :
                    pendingChanges'[k][f] = LatestValue(editLog', k, f)
       /\ (~syncRequest.sent /\ syncRequest'.sent) =>
            /\ DOMAIN syncRequest'.files = EditedKeys(editLog')
            /\ \A k \in DOMAIN syncRequest'.files :
                 /\ DOMAIN syncRequest'.files[k] =
                        {"key"} \cup DefinedFields(editLog', k)
                 /\ \A f \in DefinedFields(editLog', k) :
                        syncRequest'.files[k][f] =
                            JsonValue(LatestValue(editLog', k, f))]_vars

\* two edits of one key, the second giving the date again and a width, are one
\* entry of the request that was sent
C20_Witness ==
    /\ Len(editLog) = 2
    /\ editLog[1][1] = editLog[2][1]
    /\ editLog[1][2] = ("exifDate" :> "rA")
    /\ editLog[2][2] = (("exifDate" :> "nA") @@ ("width" :> "w2"))
    /\ syncRequest.sent
    /\ DOMAIN syncRequest.files = {editLog[1][1]}
    /\ DOMAIN syncRequest.files[editLog[1][1]] = {"key", "exifDate", "width"}
    /\ pendingChanges[editLog[1][1]]["exifDate"] = EditDate("nA")

\* ------------------------------------------------------------------------
\* The worker pool: empty runs, dequeue order, slot events
\* ------------------------------------------------------------------------

\* nothing is queued and no slot is running
PoolIdle == Len(fileQueue) = 0 /\ activeWorkers = 0 /\ inFlight = {}

\* C21: processAllQueued called with an empty queue and no running slot
\* returns a promise that is resolved at once with an empty result set. The
\* call either makes a new promise, or returns allTasksPromise as it stands,
\* whose value is the results array.
C21_EmptyQueueResolvesEmpty ==
    /\ []((PoolIdle /\ allTasksPromise # 0) =>
            (promiseState[allTasksPromise] = "resolved" /\ results = <<>>))
    /\ [][(processAllQueued /\ PoolIdle) =>
            (/\ allTasksPromise' # 0
             /\ promiseState'[allTasksPromise'] = "resolved"
             /\ results' = <<>>)]_vars

\* the jobs that have been taken from the queue
Dequeued == CreatedJobs \ (Range(fileQueue) \cup dropped)

\* C22: jobs leave the queue in the order in which addFiles and processFile
\* appended them, and after a settlement that leaves jobs in the queue the
\* number of running slots is min(maxWorkers, jobs queued or running).
C22_FifoAndSaturated ==
    /\ [](/\ \A i, j \in DOMAIN fileQueue : i < j => fileQueue[i] < fileQueue[j]
          /\ \A d \in Dequeued : \A q \in Range(fileQueue) : d < q)
    /\ [][(\E p \in inFlight : p \notin inFlight') /\ Len(fileQueue') > 0 =>
            Cardinality(inFlight') =
                Min(MaxWorkers, Cardinality(inFlight') + Len(fileQueue'))]_vars

\* C23: a 3-component image comes back from processRawFile as 4 components,
\* 4 * width * height bytes long, each pixel's three bytes as decoded and its
\* fourth byte 255; a 4-component image comes back with its bytes unchanged.
C23_PaddedToRGBA ==
    (pipeline.path = "direct" /\ pipeline.outcome = "fulfilled") =>
        LET source == pipeline.image
            out == pipeline.result.imageData
            numPixels == source.width * source.height
        IN  /\ out.colors = 4
            /\ out.width = source.width /\ out.height = source.height
            /\ source.colors = 3 =>
                  /\ Len(out.data) = 4 * numPixels
                  /\ \A i \in 0..(numPixels - 1) :
                        /\ out.data[4 * i + 4] = 255
                        /\ \A c \in 0..2 : out.data[4 * i + c + 1] = source.data[3 * i + c + 1]
            /\ source.colors = 4 => out.data = source.data

C23_Witness ==
    /\ pipeline.path = "direct" /\ pipeline.outcome = "fulfilled"
    /\ pipeline.image.colors = 3 /\ pipeline.image.width = MaxWidth
    /\ pipeline.image.data[1] = 200 /\ pipeline.image.data[2] = 0
    /\ Len(pipeline.result.imageData.data) = 4 * MaxWidth

\* C24: an image whose colour count is neither 3 nor 4 makes the run fail on
\* both paths: the step that meets it settles the run as rejected.
C24_UnsupportedColorsFail ==
    [][(/\ pipeline.pc = "metadata"
        /\ ~Supported(pipeline.image)
        /\ pipeline'.pc = "settled") => pipeline'.outcome = "rejected"]_vars

\* C26: a settled run, fulfilled or rejected, holds none of its buffers,
\* canvases or decoder on either path.
C26_SettledRunHoldsNothing ==
    pipeline.pc = "settled" => pipeline.held = {}

\* the slot events of a job as the lifecycle orders them: one start, then
\* progress reports only, then one completion
InLifecycleOrder(events) ==
    /\ Len(events) >= 2
    /\ events[1] = "start"
    /\ events[Len(events)] = "complete"
    /\ \A i \in 2..(Len(events) - 1) : events[i] = "progress"

\* C27: the slot events of every settled pool job are in lifecycle order.
C27_SlotLifecycle ==
    (pipeline.path = "pool" /\ pipeline.pc = "settled") =>
        InLifecycleOrder(pipeline.events)

\* what the date normalisation is to leave for an incoming value: the ISO
\* string of a value that parses as a date, the string form of one that does not
NormalisedDate(v) == IF ValidDate(v) THEN ToISO(v) ELSE StringOf(v)

DatesNormalised(path) ==
    mPath = path =>
        /\ ~mResult.threw
        /\ \A f \in DateFields \cap DOMAIN mUpdate :
              Truthy(mUpdate[f]) => mResult.entry[f] = NormalisedDate(mUpdate[f])

\* C25: after an update through either route the request has not failed and
\* each date field the update carried is stored as the ISO string of its value,
\* or as the value's string form when it does not parse as a date.
C25_DatesStoredAsISO == DatesNormalised("single") /\ DatesNormalised("batch")

\* C28: two consecutive puts of the single-key update queue are sent at
\* least the minimum interval apart, and an update that started sooner than
\* that after the last put is not read before the interval has passed.
C28_WritesSpaced ==
    /\ \A i \in 1..(Len(putTimes) - 1) : putTimes[i + 1] - putTimes[i] >= MinInterval
    /\ \A id \in DOMAIN readyAt :
          (requests[id].upc = "reading" /\ putTimes # <<>>) =>
              readyAt[id] >= lastIndexUpdate + MinInterval

C28_Witness ==
    /\ Len(putTimes) = 2
    /\ putTimes[2] - putTimes[1] = MinInterval
    /\ 2 \in waited
    /\ requests[2].status = 200

\* C29: no scan has listed more objects than MAX_FILES_TO_SCAN, whatever
\* the bucket holds and however many keys each listing returns.
C29_ScanWithinCap ==
    \A r \in DOMAIN listRequests :
        "scanned" \in DOMAIN listRequests[r] =>
            listRequests[r].scanned <= MaxFilesToScan

\* C30: every URL the route has returned from its cache was still valid
\* when it was returned, and every cache entry expires before the URL it holds does.
C30_ReturnedUrlStillValid ==
    /\ \A i \in DOMAIN returned :
          returned[i].cached => returned[i].at < returned[i].url.signedAt + ExpiresIn
    /\ \A k \in DOMAIN urlCache :
          urlCache[k].expiresAt < urlCache[k].url.signedAt + ExpiresIn

C30_Witness ==
    \E i \in DOMAIN returned :
        /\ returned[i].cached
        /\ returned[i].at = returned[i].url.signedAt + CacheLife - 1

\* the place of a stage in the pipeline
StageRank(stage) ==
    CASE stage = "fetch" -> 1
      [] stage = "decode" -> 2
      [] stage = "normalize" -> 3
      [] stage = "timestamp" -> 4
      [] stage = "preview" -> 5
      [] stage = "package" -> 6

\* C31: in every run the stages are entered in pipeline order, each after
\* its own progress report, and no report names a stage that precedes one
\* already reported.
C31_StagesInOrder ==
    LET log == pipeline.stages
    IN  /\ \A i, j \in DOMAIN log :
              (i < j /\ log[i].kind = log[j].kind) =>
                  StageRank(log[i].stage) <= StageRank(log[j].stage)
        /\ \A j \in DOMAIN log :
              log[j].kind = "run" =>
                  \/ log[j].stage = "package"
                  \/ \E i \in 1..(j - 1) : log[i] = Reported(log[j].stage)

\* C32: in every state of the pool the slot bookkeeping is consistent: the
\* counter is between 0 and maxWorkers, the free slot ids are distinct, counter
\* and free slots add up to maxWorkers, and no two running jobs share a slot.
C32_SlotBookkeeping ==
    /\ 0 <= activeWorkers /\ activeWorkers <= MaxWorkers
    /\ \A i, j \in DOMAIN availableWorkers :
          i # j => availableWorkers[i] # availableWorkers[j]
    /\ activeWorkers + Len(availableWorkers) = MaxWorkers
    /\ \A p, q \in inFlight : p[2] = q[2] => p = q

\* C33: the pool keeps no settled run promise, and a call of
\* processAllQueued that finds jobs queued and no run pending creates a run.
C33_NoStalePromise ==
    /\ [](allTasksPromise # 0 => promiseState[allTasksPromise] = "pending")
    /\ [][(/\ processAllQueued
            /\ Len(fileQueue) > 0
            /\ \A r \in CreatedRuns : promiseState[r] # "pending")
              => Len(promiseState') = Len(promiseState) + 1]_vars

\* C34: every promise returned by processFile is settled in the end, also
\* when its job was still queued at a call of stopProcessing.
C34_FilePromisesSettle ==
    \A j \in Jobs : (filePromise[j] = "pending") ~> (filePromise[j] # "pending")

\* the file keys named by the updates whose PutObject is outstanding
KeysBeingPut ==
    {requests[id].fileKey : id \in {i \in DOMAIN requests : requests[i].upc = "putting"}}
        \cup UNION {DOMAIN batches[b].files :
                        b \in {i \in DOMAIN batches : batches[i].pc = "putting"}}

\* C35: a step that changes the stored document keeps every key it held,
\* and changes the record of a key only if an update names that key.
C35_OtherKeysUntouched ==
    [][store.exists =>
         \A k \in DOMAIN store.files :
             /\ k \in DOMAIN store'.files
             /\ store'.files[k] # store.files[k] => k \in KeysBeingPut]_vars

\* an update waits in the queue while no drain runs and no backoff timer
\* of a queued request is left to start one
Stranded ==
    /\ updateQueue # <<>>
    /\ ~indexUpdateInProgress
    /\ \A i \in DOMAIN updateQueue : requests[updateQueue[i]].handler # "backoff"

\* the update of request id has run, if it was queued, and the request is answered
Answered(id) ==
    /\ id \in DOMAIN requests
    /\ requests[id].upc \in {"done", "rejected"}
    /\ requests[id].status # 0

\* C36: no update is ever stranded in the queue, every queued update is
\* executed and every request to the single-key route is answered.
C36_QueueDrains ==
    /\ []~Stranded
    /\ \A id \in QueuedIds : (id \in DOMAIN requests) ~> Answered(id)

C36_Witness ==
    \E id \in DOMAIN requests :
        /\ requests[id].status = 200
        /\ \E other \in DOMAIN requests :
              /\ other # id
              /\ requests[other].upc = "reading"
              /\ requests[other].handler = "done"
              /\ started = <<id, other>>

\* the RAW files under a prefix among the objects a scan may list
RawUnder(prefix) ==
    LET listed == Under(bucket, prefix)
    IN  SelectRaw(SubSeq(listed, 1, Min(MaxFilesToScan, Len(listed))))

\* C37: the files of every page that was answered are the page's slice of
\* the RAW files of the bucket under the prefix of the request.
C37_PageMatchesPrefix ==
    \A r \in DOMAIN listRequests :
        LET req == listRequests[r]
        IN  (req.pc = "answered" /\ req.response.ok) =>
                req.response.files =
                    respondWithPage(RawUnder(req.prefix), 0, req.pageNumber, PageSize).files

\* syncChangesToS3 is called, by the user or by a timer
SyncCalled == ManualSync \/ \E i \in TimerIds : SyncTimerFires(i)

\* C38: isSyncing is true exactly while a batch-update request is
\* outstanding, a request is sent only while none is outstanding, and a call
\* of syncChangesToS3 made while isSyncing is true returns and sends nothing.
C38_OneSyncInFlight ==
    /\ [](isSyncing <=> syncRequest.sent)
    /\ [][(syncRequest'.sent /\ syncRequest' # syncRequest) => ~syncRequest.sent]_vars
    /\ [][(SyncCalled /\ isSyncing) =>
              (/\ syncResult' = "returned"
               /\ syncRequest' = syncRequest
               /\ isSyncing')]_vars

\* a sync failed, a second one is outstanding, and a call made meanwhile
\* has returned
C38_Witness ==
    /\ isSyncing /\ syncRequest.sent
    /\ syncResult = "returned"
    /\ editCount = 1 /\ scheduleTimers = 1
    /\ nextSyncTime = RetryDelay

\* the positions of the files whose processRawFile ended with the outcome
FilesThat(outcome) ==
    LET RECURSIVE Pick(_)
        Pick(log) == IF log = <<>> THEN <<>>
                     ELSE (IF Head(log).outcome = outcome THEN <<Head(log).file>> ELSE <<>>)
                          \o Pick(Tail(log))
    IN  Pick(batch.settled)

\* the files are started one at a time in list order, a failed file does not
\* end the batch, and the results are the successful files in list order
C39_SequentialAndResults ==
    batch # <<>> =>
        /\ Increasing(batch.fileStarts)
        /\ Len(batch.fileStarts) - Len(batch.settled) \in {0, 1}
        /\ batch.results = FilesThat("fulfilled")
        /\ batch.fileCompletes = batch.results
        /\ batch.pc = "done" =>
              /\ batch.batchCompletes = 1
              /\ \A i \in DOMAIN batch.files :
                     batch.files[i].url <=>
                        \E n \in DOMAIN batch.settled : batch.settled[n].file = i

\* C39: batchProcessRawFiles handles the files one after the other in list
\* order, goes on after a file that fails, calls onFileError exactly once for
\* each failed file, and its results are exactly the successful files in
\* order.
C39_FailuresReportedOnce ==
    batch # <<>> =>
        /\ C39_SequentialAndResults
        /\ batch.fileErrors = FilesThat("rejected")

====
